---- MODULE Spec2Model ----
(***************************************************************************)
(* Model of the IMAP interaction layer of mcp-email-server                 *)
(* (src/mcp_email_server/emails/classic.py).                               *)
(*                                                                         *)
(* One top-level call is modelled as a sequence of awaited calls on the    *)
(* aioimaplib connection object.  aioimaplib and the server are external:  *)
(* every awaited call either returns a response whose result is "OK",      *)
(* returns a response whose result is not "OK" (written "NO"), or raises   *)
(* ("EXC").  `log` is the sequence of calls made on the connection object  *)
(* of the current session, in program order.                               *)
(***************************************************************************)
EXTENDS Integers, Sequences, FiniteSets, TLC

\* ---------------------------------------------------------------- bounds
MaxUid == 2        \* UIDs of the mailbox are 1..MaxUid
MaxIds == 2        \* longest id list handed to delete / move / flags
MaxDate == 2       \* INTERNALDATE values are 1..MaxDate (ties happen)
MaxPage == 2       \* largest page number requested
MaxPageSize == 2   \* largest page_size requested
MaxBody == 4       \* longest decoded body
MaxLimit == 3      \* truncate_body is None or in -MaxLimit..MaxLimit
MaxStr == 2        \* longest string handed to a quoting function
MaxParts == 2       \* parts of a multipart message
MaxAtt == 2         \* attachment paths of one send_email call
MaxRcpt == 2       \* longest To, Cc or Bcc list of a send

UIDs == 1..MaxUid
DateVals == 1..MaxDate

\* outcome of one awaited call on the connection object
Resp == {"OK", "NO", "EXC"}

\* the two calls that run concurrently on one handler
Tasks == {1, 2}

\* the EmailClient / handler methods that open an IMAP session
Handlers == {"count", "stream", "body", "attach", "savefile",
             "delete", "move", "flags", "folders", "sent"}

\* the conventional names of sent_folder_candidates
SentNames == <<"Sent", "INBOX.Sent", "Sent Items", "Sent Mail",
               "[Gmail]/Sent Mail", "INBOX/Sent">>

\* ------------------------------------------------------------- helpers
Range(s) == {s[i] : i \in DOMAIN s}

Last(s) == s[Len(s)]

Min(a, b) == IF a < b THEN a ELSE b

\* all sequences over S of length 0..n
SeqsUpTo(S, n) == UNION {[1..k -> S] : k \in 0..n}

\* the id lists handed to a call, up to renaming of the ids: the ids are
\* numbered in the order of their first occurrence
IdLists ==
  {s \in SeqsUpTo(1..MaxIds, MaxIds) :
     \A i \in DOMAIN s : \A v \in 1..(s[i] - 1) : \E j \in 1..(i - 1) : s[j] = v}

\* sequences over S without repetition
InjSeqs(S) == {s \in SeqsUpTo(S, Cardinality(S)) :
                 \A i, j \in DOMAIN s : i # j => s[i] # s[j]}

\* the ascending sequence of a set of integers (a SEARCH answer lists UIDs ascending)
RECURSIVE Ascending(_)
Ascending(S) ==
  IF S = {} THEN <<>>
  ELSE LET m == CHOOSE x \in S : \A y \in S : x <= y
       IN <<m>> \o Ascending(S \ {m})

Cmd(c, i, a) == [cmd |-> c, ids |-> i, arg |-> a]

CmdNames(l) == [k \in DOMAIN l |-> l[k].cmd]

CountCmd(l, c) == Cardinality({k \in DOMAIN l : l[k].cmd = c})

\* commands that need a selected mailbox
MailboxCmds == {"SEARCH", "FETCH", "STORE", "COPY", "MOVE", "EXPUNGE"}

\* ------------------------------------------------ metadata pager (pure)
\* A dict is modelled as the sequence of its items in insertion order.
\* d[k] = v on a dict: an existing key keeps its position, a new key is appended.
DictPut(d, k, v) ==
  IF \E i \in DOMAIN d : d[i].uid = k
  THEN [i \in DOMAIN d |-> IF d[i].uid = k THEN [uid |-> k, date |-> v] ELSE d[i]]
  ELSE Append(d, [uid |-> k, date |-> v])

\* d.update(e)
RECURSIVE DictUpdate(_, _)
DictUpdate(d, e) ==
  IF e = <<>> THEN d
  ELSE DictUpdate(DictPut(d, e[1].uid, e[1].date), Tail(e))

DictKeys(d) == {d[i].uid : i \in DOMAIN d}

\* default chunk size of _batch_fetch_dates, scaled down from 5000 so that a
\* mailbox of MaxUid messages is split into more than one chunk
chunk_size == 1

\* chunks = [email_ids[i : i + chunk_size] for i in range(0, len(email_ids), chunk_size)]
Chunks(email_ids, cs) ==
  [k \in 1..((Len(email_ids) + cs - 1) \div cs) |->
     SubSeq(email_ids, (k - 1) * cs + 1, Min(k * cs, Len(email_ids)))]

\* _fetch_dates_chunk: the items of the response that carry UID and INTERNALDATE
\* are put into chunk_dates in response order
FetchDatesChunkResult(items) == DictUpdate(<<>>, items)

\* _batch_fetch_dates: merge of the chunk results in task order
RECURSIVE MergeChunks(_)
MergeChunks(results) ==
  IF results = <<>> THEN <<>>
  ELSE DictUpdate(MergeChunks(SubSeq(results, 1, Len(results) - 1)), Last(results))

\* x goes before y in the requested order (strictly)
DateBefore(x, y, order) ==
  IF order = "desc" THEN x.date > y.date ELSE x.date < y.date

\* sorted(uid_dates.items(), key=lambda x: x[1], reverse=(order == "desc")):
\* a stable sort, items of equal date keep their order in uid_dates
RECURSIVE SortedUids(_, _)
SortedUids(uid_dates, order) ==
  IF uid_dates = <<>> THEN <<>>
  ELSE LET rest == SortedUids(SubSeq(uid_dates, 1, Len(uid_dates) - 1), order)
           x    == Last(uid_dates)
           k    == Cardinality({i \in DOMAIN rest : ~DateBefore(x, rest[i], order)})
       IN SubSeq(rest, 1, k) \o <<x>> \o SubSeq(rest, k + 1, Len(rest))

PageUidsZeroBased(sorted_uids, pg, ps) ==
  LET start == pg * ps
      window == SubSeq(sorted_uids, start + 1, Min(start + ps, Len(sorted_uids)))
  IN [i \in DOMAIN window |-> window[i].uid]

\* start = (page - 1) * page_size; sorted_uids[start : start + page_size]
PageUids(sorted_uids, pg, ps) ==
  LET start == (pg - 1) * ps
      window == SubSeq(sorted_uids, start + 1, Min(start + ps, Len(sorted_uids)))
  IN [i \in DOMAIN window |-> window[i].uid]

\* for uid in page_uids: if uid in metadata_by_uid: yield metadata_by_uid[uid]
YieldedFetchOrder(page_uids, metadata_by_uid) ==
  SelectSeq(metadata_by_uid, LAMBDA u : u \in Range(page_uids))

Yielded(page_uids, metadata_by_uid) ==
  SelectSeq(page_uids, LAMBDA u : u \in Range(metadata_by_uid))

CountOfLines(messages) == 1

\* len(messages[0].split())
CountOf(messages) == Len(messages)

\* ----------------------------------------------------------------- state
VARIABLES
  handler,          \* the top-level method being executed ("none" before the call)
  op,               \* the method owning the current IMAP session
  pc,               \* position inside the current method
  created,          \* the connection object of the current session exists
  log,              \* calls made on the connection object of the current session
  ids,              \* email_ids argument
  hasFlags,         \* the flags argument is non-empty
  create_if_missing,
  idx,              \* loop position (ids, fetch formats, Sent candidates)
  selRes,           \* what SELECT returned in this session ("none" before)
  pending,          \* how the try block was left: "return" or "raise"
  err,              \* the call whose failure is propagating
  outcome,          \* how the top-level method ended: "return" or "raise"
  raised,           \* the failing call whose error the caller receives
  idRes,            \* the ID announcement: "none", "ok", or "failed" when a
                    \* form of it returned non-OK or raised
  logoutRes,        \* the LOGOUT of this session: "none", "ok" or "raised"
  results,          \* FlagMutationResult: id -> BOOLEAN
  stored,           \* ids whose own STORE returned OK (per-id STOREs)
  batchRes,         \* outcome of the batched STORE of _modify_flags
  storeRes,         \* outcomes of the per-id STOREs of _modify_flags, in order
  moved, failed, deleted_ids,
  bodyRes,          \* get_email_body_by_id / download / save: "none" or "email"
  sentOk,           \* return value of append_to_sent
  candidates,       \* sent_folder_candidates
  page, page_size, order,
  email_ids,        \* UIDs returned by the SEARCH of the stream session
  chunkRes,         \* date-fetch tasks: per chunk "pending" or its chunk_dates
  uid_dates, page_uids, metadata_by_uid,
  emails,           \* items yielded by get_emails_metadata_stream, as UIDs
  total,            \* result of get_email_count (-1 before)
  mailbox,          \* listing page after page: UID -> INTERNALDATE of the
                    \* messages the filter matches
  acc,              \* concatenation of the pages received so far
  changed,          \* the mailbox changed since the first page was requested
  consistent,       \* every date FETCH so far answered for every matched UID,
                    \* in one and the same order, and every header FETCH
                    \* answered for every UID of its page
  seenDates,        \* the UID->date map of the first call (while consistent)
  sortedLen,        \* size of the sorted UID set the last page was cut from
  lastSound,        \* in the last call the date FETCH answered for every
                    \* matched UID and the mailbox was the same in both sessions
  how,              \* move_emails_to_folder: per processed id, in order, the way
                    \* its iteration ended ("move", "copied_deleted",
                    \* "copied_kept", "store_raised", "copy_failed")
  folderRes,        \* create_folder_if_needed: "none", "exists", "unlisted"
                    \* (taken as existing on a LIST response without an
                    \* entry), "created", "refused" (CREATE answered
                    \* non-OK) or "raised"
  requested_count, retrieved_count,   \* EmailContentBatchResponse (-1 before)
  text,             \* _parse_email_data: the decoded body before truncation
  truncate_body,    \* _parse_email_data: the argument ("None" or an integer)
  body,             \* _parse_email_data: the "body" of the returned dict
  flag_folder,      \* append_to_sent: what _find_sent_folder_by_flag returned
                    \* ("none" for None)
  appended,         \* append_to_sent: some imap.append answered OK
  tool,             \* the tool function of app.py that was called ("none"
                    \* when a handler method is called directly)
  enable_attachment_download,   \* settings.enable_attachment_download
  mailbox_option,   \* the --mailbox option of a CLI flag command ("none"
                    \* when the call does not come from the CLI)
  conns,            \* two concurrent calls: connection objects created so far
  imap,             \* two concurrent calls: the local variable imap of each
                    \* call (the number of its connection object, 0 before)
  meth,             \* two concurrent calls: the method each call runs
  cpc, step,        \* two concurrent calls: position of each call
  wire,             \* per connection object, the calls awaited on it and the
                    \* call that made each
  args,             \* arguments of the function or tool call under way
  ret               \* what that call returned

sessVars  == <<op, pc, created, log, selRes, pending, err, outcome, raised,
              idRes, logoutRes>>
argVars   == <<handler, ids, hasFlags, create_if_missing, page, page_size, order>>
mutVars   == <<results, stored, batchRes, storeRes, moved, failed, deleted_ids, bodyRes, sentOk, candidates>>
pagerVars == <<email_ids, chunkRes, uid_dates, page_uids, metadata_by_uid, emails, total>>
envVars   == <<mailbox, acc, changed, consistent, seenDates, sortedLen, lastSound>>
callVars  == <<args, ret>>
sentVars  == <<flag_folder, appended>>
toolVars  == <<tool, enable_attachment_download, mailbox_option>>
concVars  == <<conns, imap, meth, cpc, step, wire>>
\* what a call that opens no session leaves alone
idleVars  == <<op, created, log, selRes, pending, err, outcome, raised, idRes,
              logoutRes, ids, hasFlags, create_if_missing, idx, page, page_size,
              order, mutVars, pagerVars, envVars, how, folderRes,
              requested_count, retrieved_count, text, truncate_body, body,
              sentVars, toolVars>>
moveVars  == <<how, folderRes>>
parseVars == <<requested_count, retrieved_count, text, truncate_body, body>>
auxVars   == <<moveVars, parseVars, callVars, sentVars, toolVars, concVars>>

vars == <<handler, op, pc, created, log, ids, hasFlags, create_if_missing,
          idx, selRes, pending, err, outcome, raised, idRes, logoutRes, results,
          stored, batchRes, storeRes, moved,
          failed, deleted_ids, bodyRes, sentOk, candidates, page, page_size, order, email_ids, chunkRes, uid_dates,
          page_uids, metadata_by_uid, emails, total, mailbox, acc, changed,
          consistent, seenDates, sortedLen, lastSound, how, folderRes,
          requested_count, retrieved_count, text, truncate_body, body,
          flag_folder, appended, tool, enable_attachment_download,
          mailbox_option,
          conns, imap, meth, cpc, step, wire, args, ret>>

Init ==
  /\ handler = "none" /\ op = "none" /\ pc = "idle"
  /\ created = FALSE /\ log = <<>>
  /\ ids = <<>> /\ hasFlags = TRUE /\ create_if_missing = FALSE
  /\ idx = 0 /\ selRes = "none" /\ pending = "none" /\ err = "none"
  /\ outcome = "none" /\ raised = "none" /\ idRes = "none" /\ logoutRes = "none"
  /\ bodyRes = "unset" /\ sentOk = FALSE /\ candidates = <<>>
  /\ results = <<>> /\ stored = {} /\ batchRes = "none" /\ storeRes = <<>>
  /\ moved = <<>> /\ failed = <<>> /\ deleted_ids = <<>>
  /\ page = 1 /\ page_size = 1 /\ order = "desc"
  /\ email_ids = <<>> /\ chunkRes = <<>> /\ uid_dates = <<>> /\ page_uids = <<>>
  /\ metadata_by_uid = <<>> /\ emails = <<>> /\ total = -1
  /\ mailbox = <<>> /\ acc = <<>> /\ changed = FALSE /\ consistent = TRUE
  /\ seenDates = <<>> /\ sortedLen = 0 /\ lastSound = TRUE
  /\ how = <<>> /\ folderRes = "none"
  /\ requested_count = -1 /\ retrieved_count = -1
  /\ text = <<>> /\ truncate_body = "None" /\ body = <<>>
  /\ flag_folder = "none" /\ appended = FALSE
  /\ tool = "none" /\ enable_attachment_download = FALSE
  /\ mailbox_option = "none"
  /\ conns = 0 /\ imap = [c \in Tasks |-> 0] /\ meth = [c \in Tasks |-> "none"]
  /\ cpc = [c \in Tasks |-> "idle"] /\ step = [c \in Tasks |-> 0]
  /\ wire = [k \in 1..Cardinality(Tasks) |-> <<>>]
  /\ args = <<>> /\ ret = <<>>

\* ---------------------------------------------------- control-flow helpers
Issue(c, i, a) == log' = Append(log, Cmd(c, i, a))

RaiseSkippingFinally(src) ==
  /\ pc' = "done"
  /\ pending' = "raise"
  /\ err' = src

\* an exception leaves the try block: control goes to the finally clause
\* (append_to_sent first passes its `except Exception: return False`)
Raise(src) ==
  /\ pc' = "logout"
  /\ pending' = IF op = "sent" THEN "return" ELSE "raise"
  /\ err' = IF op = "sent" THEN err ELSE src

\* a return statement inside the try block: control goes to the finally clause
Return == pc' = "logout" /\ pending' = "return" /\ err' = err

Goto(l) == pc' = l /\ pending' = pending /\ err' = err

\* methods that obtain their session from ClassicEmailHandler.imap_connection
UsesImapConnection(o) == o \in {"flags", "folders"}

\* ------------------------------------------------------------ the calls
NoIdsOnly(i, f) == i = <<>>

\* _modify_flags: if not email_ids or not flags: return {}
NothingToModify(i, f) == i = <<>> \/ ~f

\* a top-level method is entered and creates its connection object
Call ==
  /\ pc = "idle"
  /\ \E h \in Handlers, i \in IdLists, f, c \in BOOLEAN,
        pg \in 1..MaxPage, ps \in 1..MaxPageSize, o \in {"asc", "desc"} :
       /\ h \in {"delete", "move", "flags"} \/ i = <<>>
       /\ h \in {"flags", "sent"} \/ f = TRUE
       /\ h = "move" \/ c = FALSE
       \* append_to_sent: [sent_folder_name, "Sent", ...] without the None
       /\ candidates' = IF h = "sent"
                        THEN (IF f THEN <<"Archive">> ELSE <<>>) \o SentNames
                        ELSE <<>>
       /\ h = "stream" \/ (pg = 1 /\ ps = 1 /\ o = "desc")
       /\ handler' = h /\ ids' = i /\ hasFlags' = f /\ create_if_missing' = c
       /\ page' = pg /\ page_size' = ps /\ order' = o
       /\ op' = h
       /\ IF h = "flags" /\ NothingToModify(i, f)
          THEN /\ pc' = "done" /\ outcome' = "return" /\ created' = FALSE
          ELSE /\ pc' = "connect" /\ outcome' = outcome /\ created' = TRUE
  /\ UNCHANGED <<log, idx, selRes, pending, err, raised, idRes, logoutRes>>
  /\ UNCHANGED <<results, stored, batchRes, storeRes, moved, failed, deleted_ids, bodyRes, sentOk>>
  /\ UNCHANGED pagerVars /\ UNCHANGED envVars
  /\ UNCHANGED auxVars

DeniedNever(enabled) == FALSE

\* if not settings.enable_attachment_download: raise PermissionError(msg)
Denied(enabled) == ~enabled

\* the download_attachment tool of app.py: the settings are read and the
\* policy is tested; only then the handler is looked up and its
\* download_attachment is awaited, which creates the connection object
DownloadAttachment ==
  /\ pc = "idle"
  /\ \E enabled \in BOOLEAN :
       /\ enable_attachment_download' = enabled
       /\ tool' = "download_attachment"
       /\ IF Denied(enabled)
          THEN /\ pc' = "done" /\ outcome' = "raise" /\ raised' = "PermissionError"
               /\ UNCHANGED <<handler, op, created>>
          ELSE /\ handler' = "attach" /\ op' = "attach"
               /\ pc' = "connect" /\ created' = TRUE
               /\ UNCHANGED <<outcome, raised>>
  /\ UNCHANGED <<log, idx, selRes, pending, err, idRes, logoutRes>>
  /\ UNCHANGED <<ids, hasFlags, create_if_missing, page, page_size, order>>
  /\ UNCHANGED mutVars /\ UNCHANGED pagerVars /\ UNCHANGED envVars
  /\ UNCHANGED <<moveVars, parseVars, callVars, sentVars, concVars, mailbox_option>>

\* the values of the --mailbox option: its default and another mailbox
MailboxOptions == {"INBOX", "Archive"}

\* cli/flags.py, the commands add, remove and replace: each hands its
\* arguments to _run_flag_operation, which awaits
\* method(id_strings, flags, silent) on the handler; email_ids and --flag
\* are required, so neither list is empty
RunFlagOperation ==
  /\ pc = "idle"
  /\ \E i \in IdLists \ {<<>>}, mb \in MailboxOptions :
       /\ tool' = "flags" /\ mailbox_option' = mb
       /\ handler' = "flags" /\ op' = "flags"
       /\ ids' = i /\ hasFlags' = TRUE
       /\ IF NothingToModify(i, TRUE)
          THEN /\ pc' = "done" /\ outcome' = "return" /\ created' = FALSE
          ELSE /\ pc' = "connect" /\ outcome' = outcome /\ created' = TRUE
  /\ UNCHANGED <<log, idx, selRes, pending, err, raised, idRes, logoutRes>>
  /\ UNCHANGED <<create_if_missing, page, page_size, order>>
  /\ UNCHANGED mutVars /\ UNCHANGED pagerVars /\ UNCHANGED envVars
  /\ UNCHANGED <<moveVars, parseVars, callVars, sentVars, concVars, enable_attachment_download>>

\* await imap._client_task
Connect ==
  /\ pc = "connect"
  /\ Issue("CONNECT", <<>>, "")
  /\ \E r \in {"OK", "EXC"} :
       IF r = "EXC" THEN Raise("connect") ELSE Goto("hello")
  /\ UNCHANGED <<op, created, selRes, outcome, raised, idRes, logoutRes, idx>>
  /\ UNCHANGED argVars /\ UNCHANGED envVars /\ UNCHANGED mutVars /\ UNCHANGED pagerVars
  /\ UNCHANGED auxVars

\* await imap.wait_hello_from_server()
Hello ==
  /\ pc = "hello"
  /\ Issue("HELLO", <<>>, "")
  /\ \E r \in {"OK", "EXC"} :
       IF r = "EXC" THEN Raise("hello") ELSE Goto("login")
  /\ UNCHANGED <<op, created, selRes, outcome, raised, idRes, logoutRes, idx>>
  /\ UNCHANGED argVars /\ UNCHANGED envVars /\ UNCHANGED mutVars /\ UNCHANGED pagerVars
  /\ UNCHANGED auxVars

\* await imap.login(...): the response is not inspected
Login ==
  /\ pc = "login"
  /\ Issue("LOGIN", <<>>, "")
  /\ \E r \in Resp :
       IF r = "EXC" THEN Raise("login") ELSE Goto("id")
  /\ UNCHANGED <<op, created, selRes, outcome, raised, idRes, logoutRes, idx>>
  /\ UNCHANGED argVars /\ UNCHANGED envVars /\ UNCHANGED mutVars /\ UNCHANGED pagerVars
  /\ UNCHANGED auxVars

AfterIdSkippingSelect(o) ==
  CASE o = "move" /\ create_if_missing -> "mv_list"
    [] o = "folders" -> "folders_list"
    [] o = "sent" -> "sent_list"
    [] o = "count" -> "search"
    [] OTHER -> "select"

\* where a method continues after _send_imap_id
AfterId(o) ==
  CASE o = "move" /\ create_if_missing -> "mv_list"
    [] o = "folders" -> "folders_list"
    [] o = "sent" -> "sent_list"
    [] OTHER -> "select"

\* what _send_imap_id does with the outcome of imap.id(): "next" leaves the
\* function normally, "raw" sends the raw command, "raise" propagates
IdStepFatal(r) == IF r = "OK" THEN "next" ELSE IF r = "NO" THEN "raw" ELSE "raise"

IdStep(r) == IF r = "OK" THEN "next" ELSE IF r = "NO" THEN "raw" ELSE "next"

\* what _send_imap_id does with the outcome of the raw ID command
IdRawStepFatal(r) == IF r = "EXC" THEN "raise" ELSE "next"

IdRawStep(r) == "next"

\* _send_imap_id: response = await imap.id(...)
SendId ==
  /\ pc = "id"
  /\ Issue("ID", <<>>, "")
  /\ \E r \in Resp :
       /\ idRes' = IF r = "OK" THEN "ok" ELSE "failed"
       /\ CASE IdStep(r) = "next" -> Goto(AfterId(op))
            [] IdStep(r) = "raw" -> Goto("idraw")
            [] OTHER -> Raise("id")
  /\ UNCHANGED <<op, created, selRes, outcome, raised, logoutRes, idx>>
  /\ UNCHANGED argVars /\ UNCHANGED envVars /\ UNCHANGED mutVars /\ UNCHANGED pagerVars
  /\ UNCHANGED auxVars

\* _send_imap_id: await imap.protocol.execute(Command("ID", ...))
SendIdRaw ==
  /\ pc = "idraw"
  /\ Issue("IDRAW", <<>>, "")
  /\ \E r \in Resp :
       /\ idRes' = "failed"
       /\ IF IdRawStep(r) = "next" THEN Goto(AfterId(op)) ELSE Raise("id")
  /\ UNCHANGED <<op, created, selRes, outcome, raised, logoutRes, idx>>
  /\ UNCHANGED argVars /\ UNCHANGED envVars /\ UNCHANGED mutVars /\ UNCHANGED pagerVars
  /\ UNCHANGED auxVars

\* the first position of a method's work on the selected mailbox
Body(o) ==
  CASE o \in {"count", "stream"} -> "search"
    [] o \in {"body", "attach", "savefile"} -> "fetch"
    [] o = "delete" -> "del_store"
    [] o = "move" -> "mv_move"
    [] o = "flags" -> "batch_store"

\* whether a method goes on after SELECT returned r (r is "OK" or "NO"):
\* only imap_connection inspects select_result.result
SelectChecked(o, r) == r = "OK"

SelectAccepted(o, r) == UsesImapConnection(o) => r = "OK"

SelectMailboxOption(o, option) ==
  IF UsesImapConnection(o) THEN (IF option = "none" THEN "INBOX" ELSE option) ELSE ""

\* the mailbox named in SELECT: _modify_flags enters self.imap_connection()
\* without an argument, so select_mailbox has its default "INBOX"; the other
\* methods select their mailbox parameter (written "")
SelectMailbox(o, option) == IF UsesImapConnection(o) THEN "INBOX" ELSE ""

\* await imap.select(_quote_mailbox(mailbox))
Select ==
  /\ pc = "select"
  /\ Issue("SELECT", <<>>, SelectMailbox(op, mailbox_option))
  /\ \E r \in Resp :
       IF r = "EXC"
       THEN Raise("select") /\ selRes' = "EXC"
       ELSE /\ selRes' = r
            /\ IF SelectAccepted(op, r) THEN Goto(Body(op)) ELSE Raise("select")
  /\ idx' = 1
  /\ UNCHANGED <<op, created, outcome, raised, idRes, logoutRes>>
  /\ UNCHANGED argVars /\ UNCHANGED envVars /\ UNCHANGED mutVars /\ UNCHANGED pagerVars
  /\ UNCHANGED auxVars

\* ------------------------------------------------- count and metadata
\* what the server may answer to a date FETCH of the UIDs in U: items carrying
\* UID and INTERNALDATE for some of them, in any order
DateItems(U) ==
  UNION {{[i \in DOMAIN q |-> [uid |-> q[i], date |-> d[i]]] : d \in [DOMAIN q -> DateVals]}
         : q \in InjSeqs(U)}

\* get_email_count: _, messages = await imap.uid_search(...); return len(...)
CountSearch ==
  /\ pc = "search" /\ op = "count"
  /\ Issue("SEARCH", <<>>, "")
  /\ \E r \in Resp :
       IF r = "EXC"
       THEN Raise("search") /\ total' = total
       ELSE \E S \in SUBSET UIDs : total' = CountOf(Ascending(S)) /\ Return
  /\ UNCHANGED <<op, created, selRes, outcome, raised, idRes, logoutRes, idx>>
  /\ UNCHANGED <<email_ids, chunkRes, uid_dates, page_uids, metadata_by_uid, emails>>
  /\ UNCHANGED argVars /\ UNCHANGED envVars /\ UNCHANGED mutVars
  /\ UNCHANGED auxVars

\* get_emails_metadata_stream: the SEARCH and the creation of the date-fetch tasks
StreamSearch ==
  /\ pc = "search" /\ op = "stream"
  /\ Issue("SEARCH", <<>>, "")
  /\ \E r \in Resp :
       IF r = "EXC"
       THEN Raise("search") /\ UNCHANGED <<email_ids, chunkRes>>
       ELSE \E S \in SUBSET UIDs :
              /\ email_ids' = Ascending(S)
              /\ IF S = {}
                 THEN Return /\ chunkRes' = chunkRes
                 ELSE /\ Goto("dates")
                      /\ chunkRes' = [k \in DOMAIN Chunks(Ascending(S), chunk_size) |->
                                        [issued |-> FALSE, done |-> FALSE, res |-> "none",
                                         dates |-> <<>>]]
  /\ UNCHANGED <<op, created, selRes, outcome, raised, idRes, logoutRes, idx>>
  /\ UNCHANGED <<uid_dates, page_uids, metadata_by_uid, emails, total>>
  /\ UNCHANGED argVars /\ UNCHANGED envVars /\ UNCHANGED mutVars
  /\ UNCHANGED auxVars

\* _fetch_dates_chunk of task k sends its FETCH; asyncio.gather starts the
\* tasks in list order
DatesIssue(k) ==
  /\ pc = "dates"
  /\ k \in DOMAIN chunkRes /\ ~chunkRes[k].issued
  /\ \A j \in 1..(k - 1) : chunkRes[j].issued
  /\ Issue("FETCH", Chunks(email_ids, chunk_size)[k], "INTERNALDATE")
  /\ chunkRes' = [chunkRes EXCEPT ![k].issued = TRUE]
  /\ UNCHANGED <<op, pc, created, selRes, pending, err, outcome, raised, idRes, logoutRes, idx>>
  /\ UNCHANGED <<email_ids, uid_dates, page_uids, metadata_by_uid, emails, total>>
  /\ UNCHANGED argVars /\ UNCHANGED envVars /\ UNCHANGED mutVars
  /\ UNCHANGED auxVars

PageNeverEmpty(pu) == FALSE

\* if not page_uids: return
PageEmpty(pu) == pu = <<>>

GatherWaitsForFirst(cr) == \E j \in DOMAIN cr : cr[j].done

\* results = await asyncio.gather(*tasks): every task has returned
Gathered(cr) == \A j \in DOMAIN cr : cr[j].done

\* the response of task k arrives (tasks complete in any order): the call
\* raised, or it returned with status OK or with another status, which
\* _fetch_dates_chunk does not look at (a response that is not OK carries no
\* items); once every task is done the results are merged, sorted and windowed
\* _fetch_dates_chunk: chunk_dates[uid] = datetime.strptime(date_str, ...)
\* is not inside a try block; an INTERNALDATE string that matches the
\* regular expression but is not in the format raises ValueError
StrptimeRaises(items, parsed) == items # <<>> /\ ~parsed

\* results = await asyncio.gather(*tasks): the results come in the order of
\* the tasks, whatever the order in which they completed
GatherResults(cr) == [j \in DOMAIN cr |-> cr[j].dates]

UidDatesAsCompleted(sofar, cr, k) == DictUpdate(sofar, cr[k].dates)

\* _batch_fetch_dates: uid_dates when chunk k has completed: nothing is
\* merged before gather returns; then `for chunk_dates in results:
\* uid_dates.update(chunk_dates)` merges the results in task order
UidDates(sofar, cr, k) ==
  IF Gathered(cr) THEN MergeChunks(GatherResults(cr)) ELSE sofar

DatesChunkDone(k) ==
  /\ pc = "dates"
  /\ k \in DOMAIN chunkRes /\ chunkRes[k].issued /\ ~chunkRes[k].done
  /\ \E r \in Resp :
       IF r = "EXC"
       THEN /\ Raise("fetch_dates")
            /\ chunkRes' = [chunkRes EXCEPT ![k].res = "EXC"]
            /\ UNCHANGED <<uid_dates, page_uids>>
       ELSE \E items \in DateItems(Range(Chunks(email_ids, chunk_size)[k])),
               parsed \in BOOLEAN :
              LET cr == [chunkRes EXCEPT ![k] =
                           [issued |-> TRUE, done |-> TRUE, res |-> r,
                            dates |-> FetchDatesChunkResult(items)]]
                  merged == UidDates(uid_dates, cr, k)
                  pu == PageUids(SortedUids(merged, order), page, page_size)
              IN /\ r = "NO" => items = <<>>
                 /\ StrptimeRaises(items, parsed) => r = "OK"
                 /\ chunkRes' = IF StrptimeRaises(items, parsed)
                                THEN [chunkRes EXCEPT ![k].res = "EXC"] ELSE cr
                 /\ IF StrptimeRaises(items, parsed)
                    THEN /\ Raise("strptime")
                         /\ UNCHANGED <<uid_dates, page_uids>>
                    ELSE IF Gathered(cr)
                    THEN /\ uid_dates' = merged
                         /\ page_uids' = pu
                         /\ IF PageEmpty(pu) THEN Return ELSE Goto("headers")
                    ELSE /\ Goto("dates")
                         /\ uid_dates' = merged
                         /\ UNCHANGED page_uids
  /\ UNCHANGED <<op, created, log, selRes, outcome, raised, idRes, logoutRes, idx>>
  /\ UNCHANGED <<email_ids, metadata_by_uid, emails, total>>
  /\ UNCHANGED argVars /\ UNCHANGED envVars /\ UNCHANGED mutVars
  /\ UNCHANGED auxVars

\* _batch_fetch_headers for the page, then the yield loop
StreamHeaders ==
  /\ pc = "headers"
  /\ Issue("FETCH", page_uids, "BODY.PEEK[HEADER]")
  /\ \E r \in {"OK", "EXC"} :
       IF r = "EXC"
       THEN Raise("fetch_headers") /\ UNCHANGED <<metadata_by_uid, emails>>
       ELSE \E h \in InjSeqs(Range(page_uids)) :
              /\ metadata_by_uid' = h
              /\ emails' = Yielded(page_uids, h)
              /\ Return
  /\ UNCHANGED <<op, created, selRes, outcome, raised, idRes, logoutRes, idx>>
  /\ UNCHANGED <<email_ids, chunkRes, uid_dates, page_uids, total>>
  /\ UNCHANGED argVars /\ UNCHANGED envVars /\ UNCHANGED mutVars
  /\ UNCHANGED auxVars

\* ------------------------------------------------------------- delete
\* delete_emails: one iteration of `for email_id in email_ids`
DelStore ==
  /\ pc = "del_store" /\ idx <= Len(ids)
  /\ Issue("STORE", <<ids[idx]>>, "+FLAGS")
  /\ \E r \in Resp :
       /\ IF r = "EXC"
          THEN failed' = Append(failed, ids[idx]) /\ deleted_ids' = deleted_ids
          ELSE deleted_ids' = Append(deleted_ids, ids[idx]) /\ failed' = failed
       /\ stored' = IF r = "OK" THEN stored \cup {ids[idx]} ELSE stored
  /\ idx' = idx + 1
  /\ UNCHANGED <<op, pc, created, selRes, pending, err, outcome, raised, idRes, logoutRes>>
  /\ UNCHANGED <<results, batchRes, storeRes, moved, bodyRes, sentOk, candidates>>
  /\ UNCHANGED argVars /\ UNCHANGED envVars /\ UNCHANGED pagerVars
  /\ UNCHANGED auxVars

DelExpungeIfDeleted ==
  /\ pc = "del_store" /\ idx > Len(ids)
  /\ IF deleted_ids # <<>>
     THEN /\ Issue("EXPUNGE", <<>>, "")
          /\ \E r \in Resp : IF r = "EXC" THEN Raise("expunge") ELSE Return
     ELSE log' = log /\ Return
  /\ UNCHANGED <<op, created, selRes, outcome, raised, idRes, logoutRes, idx>>
  /\ UNCHANGED argVars /\ UNCHANGED envVars /\ UNCHANGED mutVars /\ UNCHANGED pagerVars
  /\ UNCHANGED auxVars

\* delete_emails: await imap.expunge() after the loop
DelExpunge ==
  /\ pc = "del_store" /\ idx > Len(ids)
  /\ Issue("EXPUNGE", <<>>, "")
  /\ \E r \in Resp : IF r = "EXC" THEN Raise("expunge") ELSE Return
  /\ UNCHANGED <<op, created, selRes, outcome, raised, idRes, logoutRes, idx>>
  /\ UNCHANGED argVars /\ UNCHANGED envVars /\ UNCHANGED mutVars /\ UNCHANGED pagerVars
  /\ UNCHANGED auxVars

\* -------------------------------------------------------------- flags
MapPutReplacing(m, k, v) == [x \in {k} |-> v]

\* results[str(eid)] = v
MapPut(m, k, v) == [x \in (DOMAIN m) \cup {k} |-> IF x = k THEN v ELSE m[x]]

\* {str(eid): v for eid in email_ids}
MapAll(l, v) == [x \in Range(l) |-> v]

\* imap.uid("store", uid_list, ...) raised: nothing is caught, the ids are
\* reported failed
BatchStoreWithoutFallback ==
  /\ pc = "batch_store"
  /\ Issue("STORE", ids, "batch")
  /\ \E r \in Resp :
       /\ batchRes' = r
       /\ results' = MapAll(ids, r = "OK") /\ Return /\ idx' = idx
  /\ UNCHANGED <<op, created, selRes, outcome, raised, idRes, logoutRes>>
  /\ UNCHANGED <<stored, storeRes, moved, failed, deleted_ids, bodyRes, sentOk, candidates>>
  /\ UNCHANGED argVars /\ UNCHANGED envVars /\ UNCHANGED pagerVars
  /\ UNCHANGED auxVars

\* _execute_batch_flag_operation; an exception is caught by _modify_flags,
\* which then runs _execute_individual_flag_operations
BatchStore ==
  /\ pc = "batch_store"
  /\ Issue("STORE", ids, "batch")
  /\ \E r \in Resp :
       /\ batchRes' = r
       /\ CASE r = "OK" -> results' = MapAll(ids, TRUE) /\ Return /\ idx' = idx
            [] r = "NO" -> results' = MapAll(ids, FALSE) /\ Return /\ idx' = idx
            [] OTHER -> results' = <<>> /\ Goto("indiv_store") /\ idx' = 1
  /\ UNCHANGED <<op, created, selRes, outcome, raised, idRes, logoutRes>>
  /\ UNCHANGED <<stored, storeRes, moved, failed, deleted_ids, bodyRes, sentOk, candidates>>
  /\ UNCHANGED argVars /\ UNCHANGED envVars /\ UNCHANGED pagerVars
  /\ UNCHANGED auxVars

\* _execute_individual_flag_operations: one iteration of `for eid in email_ids`
IndivStore ==
  /\ pc = "indiv_store" /\ idx <= Len(ids)
  /\ Issue("STORE", <<ids[idx]>>, "single")
  /\ \E r \in Resp :
       /\ results' = MapPut(results, ids[idx], r = "OK")
       /\ stored' = IF r = "OK" THEN stored \cup {ids[idx]} ELSE stored
       /\ storeRes' = Append(storeRes, r)
  /\ idx' = idx + 1
  /\ IF idx = Len(ids) THEN Return ELSE Goto("indiv_store")
  /\ UNCHANGED <<op, created, selRes, outcome, raised, idRes, logoutRes>>
  /\ UNCHANGED <<batchRes, moved, failed, deleted_ids, bodyRes, sentOk, candidates>>
  /\ UNCHANGED argVars /\ UNCHANGED envVars /\ UNCHANGED pagerVars
  /\ UNCHANGED auxVars

\* --------------------------------------------------------------- move
\* the shapes of a LIST response: an entry for the folder, only the
\* completion line, or no line at all
ListShapes == {"entry", "completion", "empty"}

\* create_folder_if_needed:
\* existing and any(isinstance(item, bytes) and len(item) > 2 for item in existing)
FolderExists(shape) == shape \in {"entry", "completion"}

MvCreateFailedReportingNothing ==
  /\ moved' = <<>> /\ failed' = <<>> /\ Return

\* move_emails_to_folder: return {"moved": [], "failed": email_ids}
MvCreateFailed ==
  /\ moved' = <<>> /\ failed' = ids /\ Return

\* create_folder_if_needed: the LIST
MvList ==
  /\ pc = "mv_list"
  /\ Issue("LIST", <<>>, "target")
  /\ \E r \in Resp :
       IF r = "EXC"
       THEN MvCreateFailed /\ folderRes' = "raised"
       ELSE \E shape \in ListShapes :
              /\ IF FolderExists(shape)
                 THEN /\ Goto("select")
                      /\ folderRes' = IF shape = "entry" THEN "exists" ELSE "unlisted"
                 ELSE Goto("mv_create") /\ folderRes' = folderRes
              /\ UNCHANGED <<moved, failed>>
  /\ UNCHANGED <<op, created, selRes, outcome, raised, idRes, logoutRes, idx>>
  /\ UNCHANGED <<results, stored, batchRes, storeRes, deleted_ids, bodyRes, sentOk, candidates>>
  /\ UNCHANGED argVars /\ UNCHANGED envVars /\ UNCHANGED pagerVars
  /\ how' = how
  /\ UNCHANGED <<requested_count, retrieved_count, text, truncate_body, body, callVars, sentVars, toolVars, concVars>>

\* create_folder_if_needed: the CREATE (its response is not inspected)
MvCreate ==
  /\ pc = "mv_create"
  /\ Issue("CREATE", <<>>, "target")
  /\ \E r \in Resp :
       IF r = "EXC"
       THEN MvCreateFailed /\ folderRes' = "raised"
       ELSE /\ Goto("select") /\ UNCHANGED <<moved, failed>>
            /\ folderRes' = IF r = "OK" THEN "created" ELSE "refused"
  /\ UNCHANGED <<op, created, selRes, outcome, raised, idRes, logoutRes, idx>>
  /\ UNCHANGED <<results, stored, batchRes, storeRes, deleted_ids, bodyRes, sentOk, candidates>>
  /\ UNCHANGED argVars /\ UNCHANGED envVars /\ UNCHANGED pagerVars
  /\ how' = how
  /\ UNCHANGED <<requested_count, retrieved_count, text, truncate_body, body, callVars, sentVars, toolVars, concVars>>

\* move_emails_to_folder: imap.uid("move", ...) for the current id
MvMove ==
  /\ pc = "mv_move" /\ idx <= Len(ids)
  /\ Issue("MOVE", <<ids[idx]>>, "target")
  /\ \E r \in Resp :
       IF r = "OK"
       THEN /\ moved' = Append(moved, ids[idx]) /\ idx' = idx + 1
            /\ how' = Append(how, "move")
            /\ Goto("mv_move")
       ELSE /\ moved' = moved /\ idx' = idx /\ how' = how /\ Goto("mv_copy")
  /\ UNCHANGED <<op, created, selRes, outcome, raised, idRes, logoutRes>>
  /\ UNCHANGED <<results, stored, batchRes, storeRes, failed, deleted_ids, bodyRes, sentOk, candidates>>
  /\ UNCHANGED argVars /\ UNCHANGED envVars /\ UNCHANGED pagerVars
  /\ folderRes' = folderRes
  /\ UNCHANGED <<requested_count, retrieved_count, text, truncate_body, body, callVars, sentVars, toolVars, concVars>>

\* move_emails_to_folder: the COPY of the fallback
MvCopy ==
  /\ pc = "mv_copy"
  /\ Issue("COPY", <<ids[idx]>>, "target")
  /\ \E r \in Resp :
       IF r = "OK"
       THEN /\ failed' = failed /\ idx' = idx /\ how' = how /\ Goto("mv_store")
       ELSE /\ failed' = Append(failed, ids[idx]) /\ idx' = idx + 1
            /\ how' = Append(how, "copy_failed")
            /\ Goto("mv_move")
  /\ UNCHANGED <<op, created, selRes, outcome, raised, idRes, logoutRes>>
  /\ UNCHANGED <<results, stored, batchRes, storeRes, moved, deleted_ids, bodyRes, sentOk, candidates>>
  /\ UNCHANGED argVars /\ UNCHANGED envVars /\ UNCHANGED pagerVars
  /\ folderRes' = folderRes
  /\ UNCHANGED <<requested_count, retrieved_count, text, truncate_body, body, callVars, sentVars, toolVars, concVars>>

\* move_emails_to_folder: the STORE +FLAGS (\Deleted) of the fallback
\* (its response is not inspected)
MvStore ==
  /\ pc = "mv_store"
  /\ Issue("STORE", <<ids[idx]>>, "+FLAGS")
  /\ \E r \in Resp :
       /\ IF r = "EXC"
          THEN failed' = Append(failed, ids[idx]) /\ moved' = moved
          ELSE moved' = Append(moved, ids[idx]) /\ failed' = failed
       /\ stored' = IF r = "OK" THEN stored \cup {ids[idx]} ELSE stored
       /\ how' = Append(how, CASE r = "OK" -> "copied_deleted"
                                [] r = "NO" -> "copied_kept"
                                [] OTHER -> "store_raised")
  /\ idx' = idx + 1
  /\ Goto("mv_move")
  /\ folderRes' = folderRes
  /\ UNCHANGED <<requested_count, retrieved_count, text, truncate_body, body, callVars, sentVars, toolVars, concVars>>
  /\ UNCHANGED <<op, created, selRes, outcome, raised, idRes, logoutRes>>
  /\ UNCHANGED <<results, batchRes, storeRes, deleted_ids, bodyRes, sentOk, candidates>>
  /\ UNCHANGED argVars /\ UNCHANGED envVars /\ UNCHANGED pagerVars

MvExpungeAlways ==
  /\ pc = "mv_move" /\ idx > Len(ids)
  /\ Issue("EXPUNGE", <<>>, "")
  /\ \E r \in Resp : IF r = "EXC" THEN Raise("expunge") ELSE Return
  /\ UNCHANGED <<op, created, selRes, outcome, raised, idRes, logoutRes, idx>>
  /\ UNCHANGED argVars /\ UNCHANGED envVars /\ UNCHANGED mutVars /\ UNCHANGED pagerVars
  /\ UNCHANGED auxVars

\* move_emails_to_folder: if moved: await imap.expunge()
MvExpunge ==
  /\ pc = "mv_move" /\ idx > Len(ids)
  /\ IF moved # <<>>
     THEN /\ Issue("EXPUNGE", <<>>, "")
          /\ \E r \in Resp : IF r = "EXC" THEN Raise("expunge") ELSE Return
     ELSE log' = log /\ Return
  /\ UNCHANGED <<op, created, selRes, outcome, raised, idRes, logoutRes, idx>>
  /\ UNCHANGED argVars /\ UNCHANGED envVars /\ UNCHANGED mutVars /\ UNCHANGED pagerVars
  /\ UNCHANGED auxVars

\* ------------------------------------- body, attachment, save to file
fetch_formats_peek_first == <<"BODY.PEEK[]", "RFC822", "BODY[]", "(BODY.PEEK[])">>

\* fetch_formats = ["RFC822", "BODY[]", "BODY.PEEK[]", "(BODY.PEEK[])"]
fetch_formats == <<"RFC822", "BODY[]", "BODY.PEEK[]", "(BODY.PEEK[])">>

\* _fetch_email_with_formats: one iteration of the loop over fetch_formats;
\* `content` is the verdict of _check_email_content on the response
FetchFormat ==
  /\ pc = "fetch" /\ idx <= Len(fetch_formats)
  /\ Issue("FETCH", <<>>, fetch_formats[idx])
  /\ \E r \in Resp, content \in BOOLEAN :
       /\ r = "EXC" => ~content
       /\ IF content
          THEN Goto("decode") /\ idx' = idx /\ bodyRes' = bodyRes
          ELSE IF idx < Len(fetch_formats)
               THEN Goto("fetch") /\ idx' = idx + 1 /\ bodyRes' = bodyRes
               ELSE /\ idx' = idx + 1
                    /\ IF op = "body"
                       THEN bodyRes' = "none" /\ Return   \* return None
                       ELSE bodyRes' = bodyRes /\ Raise("not_found")
  /\ UNCHANGED <<op, created, selRes, outcome, raised, idRes, logoutRes>>
  /\ UNCHANGED <<results, stored, batchRes, storeRes, moved, failed, deleted_ids, sentOk, candidates>>
  /\ UNCHANGED argVars /\ UNCHANGED envVars /\ UNCHANGED pagerVars
  /\ UNCHANGED auxVars

\* what follows a recognised response: _extract_raw_email, the MIME parse and,
\* for a download, the search for the attachment
DecodeOutcomes(o) ==
  IF o = "attach" THEN {"ok", "no_raw", "parse_error", "no_attachment"}
  ELSE {"ok", "no_raw", "parse_error"}

Decode ==
  /\ pc = "decode"
  /\ \E d \in DecodeOutcomes(op) :
       IF d = "ok"
       THEN bodyRes' = "email" /\ Return
       ELSE IF op = "body"
            THEN bodyRes' = "none" /\ Return
            ELSE bodyRes' = bodyRes /\ Raise(d)
  /\ UNCHANGED <<op, created, log, selRes, outcome, raised, idRes, logoutRes, idx>>
  /\ UNCHANGED <<results, stored, batchRes, storeRes, moved, failed, deleted_ids, sentOk, candidates>>
  /\ UNCHANGED argVars /\ UNCHANGED envVars /\ UNCHANGED pagerVars
  /\ UNCHANGED auxVars

\* ------------------------------------------------------------ folders
\* list_folders: _, folders = await imap.list('""', pattern)
FoldersList ==
  /\ pc = "folders_list"
  /\ Issue("LIST", <<>>, "pattern")
  /\ \E r \in Resp : IF r = "EXC" THEN Raise("list") ELSE Return
  /\ UNCHANGED <<op, created, selRes, outcome, raised, idRes, logoutRes, idx>>
  /\ UNCHANGED argVars /\ UNCHANGED envVars /\ UNCHANGED mutVars /\ UNCHANGED pagerVars
  /\ UNCHANGED auxVars

\* ------------------------------------------------------ append to Sent
\* what _find_sent_folder_by_flag may return: nothing, a folder that is
\* already a candidate (the first or a later one), or another folder
FlagFolders == {"none", "Sent", "Sent Items", "Gesendete Objekte"}

\* if flag_folder and flag_folder not in sent_folder_candidates: insert(0, ...)
WithFlagFolder(cands, f) ==
  IF f # "none" /\ f \notin Range(cands) THEN <<f>> \o cands ELSE cands

\* _find_sent_folder_by_flag, then the candidate list is completed
SentList ==
  /\ pc = "sent_list"
  /\ Issue("LIST", <<>>, "*")
  /\ \E r \in Resp, f \in FlagFolders :
       /\ r = "EXC" => f = "none"
       /\ flag_folder' = f
       /\ candidates' = WithFlagFolder(candidates, f)
  /\ idx' = 1
  /\ Goto("sent_select")
  /\ UNCHANGED <<op, created, selRes, outcome, raised, idRes, logoutRes>>
  /\ UNCHANGED <<results, stored, batchRes, storeRes, moved, failed, deleted_ids, bodyRes, sentOk>>
  /\ UNCHANGED argVars /\ UNCHANGED envVars /\ UNCHANGED pagerVars
  /\ UNCHANGED <<moveVars, parseVars, callVars, appended, toolVars, concVars>>

\* append_to_sent: the SELECT of the current candidate
SentSelect ==
  /\ pc = "sent_select" /\ idx <= Len(candidates)
  /\ Issue("SELECT", <<>>, candidates[idx])
  /\ \E r \in Resp :
       IF r = "OK"
       THEN Goto("sent_append") /\ idx' = idx
       ELSE Goto("sent_select") /\ idx' = idx + 1
  /\ UNCHANGED <<op, created, selRes, outcome, raised, idRes, logoutRes>>
  /\ UNCHANGED argVars /\ UNCHANGED envVars /\ UNCHANGED mutVars /\ UNCHANGED pagerVars
  /\ UNCHANGED auxVars

AppendSavedUnlessRaised(r) == r # "EXC"

\* if str(append_status).upper() == "OK": return True
AppendSaved(r) == r = "OK"

\* append_to_sent: the APPEND into the candidate that was selected
SentAppend ==
  /\ pc = "sent_append"
  /\ Issue("APPEND", <<>>, candidates[idx])
  /\ \E r \in Resp :
       /\ appended' = (appended \/ r = "OK")
       /\ IF AppendSaved(r)
          THEN sentOk' = TRUE /\ Return /\ idx' = idx
          ELSE sentOk' = sentOk /\ Goto("sent_select") /\ idx' = idx + 1
  /\ UNCHANGED <<op, created, selRes, outcome, raised, idRes, logoutRes>>
  /\ UNCHANGED <<results, stored, batchRes, storeRes, moved, failed, deleted_ids, bodyRes, candidates>>
  /\ UNCHANGED argVars /\ UNCHANGED envVars /\ UNCHANGED pagerVars
  /\ UNCHANGED <<moveVars, parseVars, callVars, flag_folder, toolVars, concVars>>

\* append_to_sent: no candidate took the message: return False
SentGiveUp ==
  /\ pc = "sent_select" /\ idx > Len(candidates)
  /\ Return
  /\ UNCHANGED <<op, created, log, selRes, outcome, raised, idRes, logoutRes, idx>>
  /\ UNCHANGED argVars /\ UNCHANGED envVars /\ UNCHANGED mutVars /\ UNCHANGED pagerVars
  /\ UNCHANGED auxVars

\* ------------------------------------------- listing page after page
\* A caller lists a mailbox with ClassicEmailHandler.get_emails_metadata,
\* page = 1, 2, ... up to ceil(total / page_size).  One step is one whole call:
\* the session of get_emails_metadata_stream followed by the session of
\* get_email_count, computed with the operators above from what the server
\* answers.

\* the mailboxes a listing starts from: n messages with UIDs 1..n
Mailboxes == UNION {[1..n -> DateVals] : n \in 0..MaxUid}

\* the answers a server may give to the date FETCH of one chunk: the true
\* INTERNALDATE of some of the requested UIDs, in any order
DateAnswers(chunk, mb) ==
  {[i \in DOMAIN q |-> [uid |-> q[i], date |-> mb[q[i]]]] : q \in InjSeqs(Range(chunk))}

\* one answer per chunk
RECURSIVE ChunkAnswers(_, _)
ChunkAnswers(chunks, mb) ==
  IF chunks = <<>> THEN {<<>>}
  ELSE {Append(p, a) : p \in ChunkAnswers(SubSeq(chunks, 1, Len(chunks) - 1), mb),
                       a \in DateAnswers(Last(chunks), mb)}

\* what the mailbox may be when get_email_count searches it: unchanged, or
\* (once per listing) one message expunged or one message delivered
MailboxAtCount(mb) ==
  IF changed THEN {mb} ELSE
  LET n == Cardinality(DOMAIN mb)
      top == IF DOMAIN mb = {} THEN 0 ELSE CHOOSE x \in DOMAIN mb : \A y \in DOMAIN mb : y <= x
  IN {mb}
     \cup {[x \in (DOMAIN mb) \ {u} |-> mb[x]] : u \in DOMAIN mb}
     \cup (IF top < MaxUid
           THEN {[x \in (DOMAIN mb) \cup {top + 1} |-> IF x = top + 1 THEN MaxDate ELSE mb[x]]}
           ELSE {})

\* the caller starts to list a mailbox
StartListing ==
  /\ pc = "idle"
  /\ \E mb \in Mailboxes, ps \in 1..MaxPageSize, o \in {"asc", "desc"} :
       /\ mailbox' = mb /\ page_size' = ps /\ order' = o
  /\ handler' = "metadata" /\ pc' = "paging" /\ page' = 0
  /\ UNCHANGED <<op, created, log, selRes, pending, err, outcome, raised, idRes, logoutRes>>
  /\ UNCHANGED <<ids, hasFlags, create_if_missing, idx>>
  /\ UNCHANGED mutVars /\ UNCHANGED pagerVars
  /\ UNCHANGED <<acc, changed, consistent, seenDates, sortedLen, lastSound>>
  /\ UNCHANGED auxVars

\* get_emails_metadata(page + 1, page_size, order = order) returns
ListPage ==
  /\ pc = "paging"
  /\ page = 0 \/ page * page_size < total
  /\ LET eids == Ascending(DOMAIN mailbox)
         chunks == Chunks(eids, chunk_size)
     IN \E answers \in ChunkAnswers(chunks, mailbox) :
          LET merged == MergeChunks([k \in DOMAIN answers |-> FetchDatesChunkResult(answers[k])])
              pu == PageUids(SortedUids(merged, order), page + 1, page_size)
              ok == /\ consistent
                    /\ DictKeys(merged) = DOMAIN mailbox
                    /\ page = 0 \/ merged = seenDates
          IN \E h \in InjSeqs(Range(pu)), mb2 \in MailboxAtCount(mailbox) :
               /\ sortedLen' = Len(SortedUids(merged, order))
               /\ lastSound' = (DictKeys(merged) = DOMAIN mailbox /\ mb2 = mailbox)
               /\ emails' = Yielded(pu, h)
               /\ acc' = acc \o Yielded(pu, h)
               /\ total' = CountOf(Ascending(DOMAIN mb2))
               /\ mailbox' = mb2
               /\ changed' = (changed \/ mb2 # mailbox)
               /\ consistent' = (ok /\ Range(h) = Range(pu))
               /\ seenDates' = IF ok /\ Range(h) = Range(pu) THEN merged ELSE <<>>
  /\ page' = page + 1
  /\ UNCHANGED <<handler, op, pc, created, log, selRes, pending, err, outcome, raised, idRes, logoutRes>>
  /\ UNCHANGED <<ids, hasFlags, create_if_missing, idx, page_size, order>>
  /\ UNCHANGED <<email_ids, chunkRes, uid_dates, page_uids, metadata_by_uid>>
  /\ UNCHANGED mutVars
  /\ UNCHANGED auxVars

\* a call of the listing raises (one of its sessions failed): the caller stops
ListPageFails ==
  /\ pc = "paging"
  /\ page = 0 \/ page * page_size < total
  /\ pc' = "page_failed" /\ outcome' = "raise"
  /\ UNCHANGED <<handler, op, created, log, selRes, pending, err, raised, idRes, logoutRes>>
  /\ UNCHANGED <<ids, hasFlags, create_if_missing, idx, page, page_size, order>>
  /\ UNCHANGED mutVars /\ UNCHANGED pagerVars /\ UNCHANGED envVars
  /\ UNCHANGED auxVars

\* the caller has received page ceil(total / page_size)
ListingDone ==
  /\ pc = "paging"
  /\ page >= 1 /\ page * page_size >= total
  /\ pc' = "paged" /\ outcome' = "return"
  /\ UNCHANGED <<handler, op, created, log, selRes, pending, err, raised, idRes, logoutRes>>
  /\ UNCHANGED <<ids, hasFlags, create_if_missing, idx, page, page_size, order>>
  /\ UNCHANGED mutVars /\ UNCHANGED pagerVars /\ UNCHANGED envVars
  /\ UNCHANGED auxVars

\* ------------------------------------------------- get_emails_content
\* how one get_email_body_by_id call ends: a dict, None, or an exception
BodyResults == {"email", "none", "raise"}

NextIdAbortingOnFailure(i, n, res) == IF res = "email" THEN i + 1 ELSE n + 1

\* for email_id in email_ids: the id handled after position i of n
NextId(i, n, res) == i + 1

\* ClassicEmailHandler.get_emails_content is called
StartContent ==
  /\ pc = "idle"
  /\ \E i \in IdLists : ids' = i
  /\ handler' = "content" /\ pc' = "content" /\ idx' = 1
  /\ emails' = <<>> /\ failed' = <<>>
  /\ UNCHANGED <<op, created, log, selRes, pending, err, outcome, raised, idRes, logoutRes>>
  /\ UNCHANGED <<hasFlags, create_if_missing, page, page_size, order>>
  /\ UNCHANGED <<results, stored, batchRes, storeRes, moved, deleted_ids, bodyRes, sentOk, candidates>>
  /\ UNCHANGED <<email_ids, chunkRes, uid_dates, page_uids, metadata_by_uid, total>>
  /\ UNCHANGED envVars /\ UNCHANGED auxVars

\* one iteration: get_email_body_by_id(email_id, ...) in a session of its own;
\* a dict is appended to emails, None or an exception sends the id to failed_ids
ContentFetch ==
  /\ pc = "content" /\ idx <= Len(ids)
  /\ \E res \in BodyResults :
       /\ IF res = "email"
          THEN emails' = Append(emails, ids[idx]) /\ failed' = failed
          ELSE failed' = Append(failed, ids[idx]) /\ emails' = emails
       /\ idx' = NextId(idx, Len(ids), res)
  /\ UNCHANGED <<op, pc, created, log, selRes, pending, err, outcome, raised, idRes, logoutRes>>
  /\ UNCHANGED argVars
  /\ UNCHANGED <<results, stored, batchRes, storeRes, moved, deleted_ids, bodyRes, sentOk, candidates>>
  /\ UNCHANGED <<email_ids, chunkRes, uid_dates, page_uids, metadata_by_uid, total>>
  /\ UNCHANGED envVars /\ UNCHANGED auxVars

\* return EmailContentBatchResponse(emails, requested_count, retrieved_count,
\* failed_ids)
ContentReturn ==
  /\ pc = "content" /\ idx > Len(ids)
  /\ requested_count' = Len(ids) /\ retrieved_count' = Len(emails)
  /\ pc' = "content_done" /\ outcome' = "return"
  /\ UNCHANGED <<op, created, log, selRes, pending, err, raised, idRes, logoutRes, idx>>
  /\ UNCHANGED argVars /\ UNCHANGED mutVars /\ UNCHANGED pagerVars /\ UNCHANGED envVars
  /\ UNCHANGED <<how, folderRes, text, truncate_body, body, callVars, sentVars, toolVars, concVars>>

\* -------------------------------------------------- _parse_email_data
\* MAX_BODY_LENGTH = 20000, scaled down with the bodies
MAX_BODY_LENGTH == 3

Chars == {"a", "b"}

\* the decoded bodies: strings over Chars of length 0..MaxBody
Bodies == UNION {[1..n -> Chars] : n \in 0..MaxBody}

\* truncate_body: int | None; None is <<>>, the integer n is <<n>>
Limits == {<<>>} \cup {<<n>> : n \in (0 - MaxLimit)..MaxLimit}

\* "...[TRUNCATED]"
Marker == <<".", ".", ".", "[", "T", "R", "U", "N", "C", "A", "T", "E", "D", "]">>

\* Python's b[:n]: the first n items, or all but the last -n when n < 0
Slice(b, n) ==
  IF n >= 0 THEN SubSeq(b, 1, Min(n, Len(b)))
  ELSE SubSeq(b, 1, IF Len(b) + n > 0 THEN Len(b) + n ELSE 0)

\* limit = truncate_body if truncate_body is not None else MAX_BODY_LENGTH
LimitOf(tb) == IF tb # <<>> THEN tb[1] ELSE MAX_BODY_LENGTH

\* if body and len(body) > limit: body = body[:limit] + "...[TRUNCATED]"
TruncateBody(b, tb) ==
  IF b # <<>> /\ Len(b) > LimitOf(tb) THEN Slice(b, LimitOf(tb)) \o Marker ELSE b

\* _parse_email_data(raw_email, email_id, truncate_body) on a message whose
\* decoded body is t
ParseEmailData ==
  /\ pc = "idle"
  /\ \E t \in Bodies, tb \in Limits :
       /\ text' = t /\ truncate_body' = tb /\ body' = TruncateBody(t, tb)
  /\ handler' = "parse" /\ pc' = "parsed"
  /\ UNCHANGED <<op, created, log, selRes, pending, err, outcome, raised, idRes, logoutRes>>
  /\ UNCHANGED <<ids, hasFlags, create_if_missing, idx, page, page_size, order>>
  /\ UNCHANGED mutVars /\ UNCHANGED pagerVars /\ UNCHANGED envVars
  /\ UNCHANGED <<how, folderRes, requested_count, retrieved_count, callVars, sentVars, toolVars, concVars>>

\* -------------------------------------------------------------- logout
\* finally: try: await imap.logout() except Exception: log.  What leaves the
\* finally clause, given how the try block was left (p, e) and the outcome r
\* of logout
AfterLogoutPropagating(p, e, r) ==
  IF r = "EXC" THEN [pending |-> "raise", err |-> "logout"]
  ELSE [pending |-> p, err |-> e]

AfterLogout(p, e, r) == [pending |-> p, err |-> e]

\* the finally clause of every session, and what the method does after it
Logout ==
  /\ pc = "logout"
  /\ Issue("LOGOUT", <<>>, "")
  /\ \E r \in Resp :
       LET a == AfterLogout(pending, err, r) IN
       CASE handler = "flags" /\ a.pending = "raise" ->
              \* _modify_flags: except Exception: return {str(eid): False ...}
              /\ results' = MapAll(ids, FALSE)
              /\ outcome' = "return" /\ raised' = "none" /\ pc' = "done"
              /\ logoutRes' = IF r = "EXC" THEN "raised" ELSE "ok"
              /\ UNCHANGED <<selRes, pending, err, idRes>>
         [] OTHER ->
              /\ outcome' = a.pending
              /\ raised' = IF a.pending = "raise" THEN a.err ELSE "none"
              /\ pc' = "done"
              /\ logoutRes' = IF r = "EXC" THEN "raised" ELSE "ok"
              /\ UNCHANGED <<selRes, pending, err, results, idRes>>
  /\ UNCHANGED <<op, created, idx, stored, batchRes, storeRes, moved, failed, deleted_ids, bodyRes, sentOk, candidates>>
  /\ UNCHANGED argVars /\ UNCHANGED envVars /\ UNCHANGED pagerVars
  /\ UNCHANGED auxVars

Next ==
  \/ Call \/ DownloadAttachment \/ RunFlagOperation \/ Connect \/ Hello \/ Login \/ SendId \/ SendIdRaw \/ Select
  \/ CountSearch \/ StreamSearch
  \/ \E k \in 1..MaxUid : DatesIssue(k)
  \/ \E k \in 1..MaxUid : DatesChunkDone(k)
  \/ StreamHeaders
  \/ DelStore \/ DelExpunge
  \/ BatchStore \/ IndivStore
  \/ MvList \/ MvCreate \/ MvMove \/ MvCopy \/ MvStore \/ MvExpunge
  \/ FetchFormat \/ Decode
  \/ FoldersList
  \/ SentList \/ SentSelect \/ SentAppend \/ SentGiveUp
  \/ Logout
  \/ StartListing \/ ListPage \/ ListPageFails \/ ListingDone
  \/ StartContent \/ ContentFetch \/ ContentReturn
  \/ ParseEmailData

Spec == Init /\ [][Next]_vars

\* ============================================ functions without a session
\* Strings are sequences of one-character strings; None is <<>> and a value
\* v is <<v>>.
Option(S) == {<<>>} \cup {<<x>> : x \in S}

BS == "\\"
DQ == "\""

\* an alphabet with the two characters the quoting functions escape
Alphabet == {"a", BS, DQ}

Strings == SeqsUpTo(Alphabet, MaxStr)

\* str.replace(old, new) for a one-character old
RECURSIVE Replace(_, _, _)
Replace(str, old, new) ==
  IF str = <<>> THEN <<>>
  ELSE (IF Head(str) = old THEN new ELSE <<Head(str)>>) \o Replace(Tail(str), old, new)

\* escaped = mailbox.replace("\\", "\\\\").replace('"', r"\""); return f'"{escaped}"'
QuoteMailbox(name) ==
  <<DQ>> \o Replace(Replace(name, BS, <<BS, BS>>), DQ, <<BS, DQ>>) \o <<DQ>>

QuoteSearchParamQuotesFirst(param) ==
  <<DQ>> \o Replace(Replace(param, DQ, <<BS, DQ>>), BS, <<BS, BS>>) \o <<DQ>>

\* escaped = param.replace("\\", "\\\\").replace('"', '\\"'); return f'"{escaped}"'
QuoteSearchParam(param) ==
  <<DQ>> \o Replace(Replace(param, BS, <<BS, BS>>), DQ, <<BS, DQ>>) \o <<DQ>>

QuoteFunctions == {"_quote_mailbox", "_quote_search_param"}

QuoteBy(f, str) ==
  IF f = "_quote_mailbox" THEN QuoteMailbox(str) ELSE QuoteSearchParam(str)

\* one call of a quoting function
Quote ==
  /\ pc = "idle"
  /\ \E f \in QuoteFunctions, str \in Strings :
       /\ args' = [fn |-> f, str |-> str]
       /\ ret' = QuoteBy(f, str)
  /\ handler' = "quote" /\ pc' = "returned"
  /\ UNCHANGED <<idleVars, concVars>>

\* before.strftime("%d-%b-%Y").upper() for the days 1, 2, ... of January 2024;
\* a token of the criteria list is a sequence of strings, a bare atom is the
\* one-element sequence of its name
Strftime(d) == <<<<"01-JAN-2024">>, <<"02-JAN-2024">>, <<"03-JAN-2024">>, <<"04-JAN-2024">>>>[d]

\* if before: search_criteria.extend(["BEFORE", ...])
DateCriterion(key, d) ==
  IF d # <<>> THEN <<<<key>>, Strftime(d[1])>> ELSE <<>>

\* if subject: search_criteria.extend(["SUBJECT", _quote_search_param(subject)]):
\* None and the empty string are both false
TextCriterion(key, v) ==
  IF v # <<>> /\ v[1] # <<>> THEN <<<<key>>, QuoteSearchParam(v[1])>> ELSE <<>>

FlagCriterionInverted(v, pos, neg) ==
  IF v = <<>> THEN <<>> ELSE IF v[1] THEN <<<<neg>>>> ELSE <<<<pos>>>>

\* if flag_value in criteria_map: search_criteria.append(criteria_map[flag_value])
FlagCriterion(v, pos, neg) ==
  IF v = <<>> THEN <<>> ELSE IF v[1] THEN <<<<pos>>>> ELSE <<<<neg>>>>

OrAllAppended(search_criteria) == search_criteria \o <<<<"ALL">>>>

\* return search_criteria or ["ALL"]
OrAll(search_criteria) ==
  IF search_criteria # <<>> THEN search_criteria ELSE <<<<"ALL">>>>

\* _build_search_criteria
BuildSearchCriteriaOf(a) ==
  OrAll(DateCriterion("BEFORE", a.before) \o DateCriterion("SINCE", a.since)
        \o TextCriterion("SUBJECT", a.subject) \o TextCriterion("BODY", a.body)
        \o TextCriterion("TEXT", a.text) \o TextCriterion("FROM", a.from_address)
        \o TextCriterion("TO", a.to_address)
        \o FlagCriterion(a.seen, "SEEN", "UNSEEN")
        \o FlagCriterion(a.flagged, "FLAGGED", "UNFLAGGED")
        \o FlagCriterion(a.answered, "ANSWERED", "UNANSWERED"))

\* the values given to a text filter: None, the empty string, a string with
\* both characters that are escaped
FilterTexts == Option({<<>>, <<"a", DQ, BS>>})

\* one call of _build_search_criteria
BuildSearchCriteria ==
  /\ pc = "idle"
  /\ \E b, si \in Option(DateVals), su, bo, te, fr, to \in FilterTexts,
        se, fl, an \in Option(BOOLEAN) :
       LET a == [before |-> b, since |-> si, subject |-> su, body |-> bo,
                 text |-> te, from_address |-> fr, to_address |-> to,
                 seen |-> se, flagged |-> fl, answered |-> an]
       IN args' = a /\ ret' = BuildSearchCriteriaOf(a)
  /\ handler' = "criteria" /\ pc' = "returned"
  /\ UNCHANGED <<idleVars, concVars>>

\* the places where a string of the caller becomes an argument of a command:
\* method and command
CallSites ==
  {"get_email_count.select", "get_emails_metadata_stream.select",
   "get_email_body_by_id.select", "download_attachment.select",
   "save_email_to_file.select", "delete_emails.select",
   "move_emails_to_folder.select", "move_emails_to_folder.move",
   "move_emails_to_folder.copy", "create_folder_if_needed.list",
   "create_folder_if_needed.create", "append_to_sent.select",
   "append_to_sent.append", "imap_connection.select", "list_folders.list",
   "_build_search_criteria.operand"}

\* the argument handed to aioimaplib at the call site: imap.list('""', pattern)
\* in list_folders, _quote_search_param(...) for a search operand,
\* _quote_mailbox(...) everywhere else
WireArgument(site, str) ==
  CASE site = "list_folders.list" -> str
    [] site = "_build_search_criteria.operand" -> QuoteSearchParam(str)
    [] OTHER -> QuoteMailbox(str)

\* a command is handed the caller's string at one of the call sites
Transmit ==
  /\ pc = "idle"
  /\ \E site \in CallSites, str \in Strings :
       /\ args' = [site |-> site, str |-> str]
       /\ ret' = WireArgument(site, str)
  /\ handler' = "transmit" /\ pc' = "returned"
  /\ UNCHANGED <<idleVars, concVars>>

\* ------------------------------------------------------------ send_email
Addresses == {"a@x", "b@x"}

AddressLists == SeqsUpTo(Addresses, MaxRcpt)

\* values of in_reply_to and of references: None, the empty string, an id
ThreadIds == Option({"", "<a@x>", "<b@x>"})

\* ", ".join(l)
RECURSIVE Join(_)
Join(l) ==
  IF l = <<>> THEN <<>>
  ELSE IF Len(l) = 1 THEN l
  ELSE <<Head(l), ", ">> \o Join(Tail(l))

\* a list argument that may be None is true when it is a non-empty list
ListGiven(l) == l # <<>> /\ l[1] # <<>>

\* a str argument that may be None is true when it is a non-empty string
StrGiven(v) == v # <<>> /\ v[1] # ""

\* msg[name] = value appends a header; the value is kept as the sequence of
\* its parts
Header(name, value) == <<[name |-> name, value |-> value]>>

ThreadHeadersTogether(in_reply_to, references) ==
  IF StrGiven(in_reply_to)
  THEN Header("In-Reply-To", in_reply_to) \o Header("References", references)
  ELSE <<>>

\* if in_reply_to: msg["In-Reply-To"] = in_reply_to
\* if references: msg["References"] = references
ThreadHeaders(in_reply_to, references) ==
  (IF StrGiven(in_reply_to) THEN Header("In-Reply-To", in_reply_to) ELSE <<>>)
  \o (IF StrGiven(references) THEN Header("References", references) ELSE <<>>)

BuildMessageWithBcc(a) ==
  Header("Subject", <<"subject">>) \o Header("From", <<"sender">>)
  \o Header("To", Join(a.recipients))
  \o (IF ListGiven(a.cc) THEN Header("Cc", Join(a.cc[1])) ELSE <<>>)
  \o (IF ListGiven(a.bcc) THEN Header("Bcc", Join(a.bcc[1])) ELSE <<>>)
  \o ThreadHeaders(a.in_reply_to, a.references)
  \o Header("Date", <<"date">>) \o Header("Message-Id", <<"msgid">>)

\* EmailClient.send_email: the headers set on msg, in order
BuildMessage(a) ==
  Header("Subject", <<"subject">>) \o Header("From", <<"sender">>)
  \o Header("To", Join(a.recipients))
  \o (IF ListGiven(a.cc) THEN Header("Cc", Join(a.cc[1])) ELSE <<>>)
  \o ThreadHeaders(a.in_reply_to, a.references)
  \o Header("Date", <<"date">>) \o Header("Message-Id", <<"msgid">>)

\* all_recipients = recipients.copy(); if cc: extend(cc); if bcc: extend(bcc)
AllRecipients(a) ==
  a.recipients \o (IF ListGiven(a.cc) THEN a.cc[1] ELSE <<>>)
               \o (IF ListGiven(a.bcc) THEN a.bcc[1] ELSE <<>>)

ArchivesDespiteSmtpError(save_to_sent, smtp) == save_to_sent

\* ClassicEmailHandler.send_email: `if self.save_to_sent and msg:` is reached
\* only when outgoing_client.send_email returned, i.e. the SMTP block did
\* not raise
Archives(save_to_sent, smtp) == save_to_sent /\ smtp = "OK"

\* ClassicEmailHandler.send_email: the message is built and submitted with
\* smtp.send_message(msg, recipients=all_recipients); if that returns and
\* save_to_sent is on, the same msg is handed to append_to_sent.  `sent` is
\* the message submitted, `envelope` its recipients= argument, `archived` the
\* message handed to append_to_sent (<<>> when there is none).
SendEmail ==
  /\ pc = "idle"
  /\ \E to \in AddressLists, cc, bcc \in Option(AddressLists),
        irt, refs \in ThreadIds, save_to_sent \in BOOLEAN, smtp \in {"OK", "EXC"} :
       LET a == [recipients |-> to, cc |-> cc, bcc |-> bcc,
                 in_reply_to |-> irt, references |-> refs,
                 save_to_sent |-> save_to_sent, attachments |-> <<>>]
           msg == BuildMessage(a)
       IN /\ args' = a
          /\ ret' = [sent |-> msg, envelope |-> AllRecipients(a),
                     archived |-> IF Archives(save_to_sent, smtp) THEN msg ELSE <<>>,
                     raised |-> smtp = "EXC", smtp |-> smtp]
  /\ handler' = "send_email" /\ pc' = "returned"
  /\ UNCHANGED <<idleVars, concVars>>

\* what an attachment path may name
PathKinds == {"file", "missing", "dir"}

AttachmentLists == SeqsUpTo(PathKinds, MaxAtt) \ {<<>>}

ValidIfExists(kind) == kind # "missing"

\* _validate_attachment: FileNotFoundError unless path.exists(), ValueError
\* unless path.is_file()
Valid(kind) == kind = "file"

\* _create_message_with_attachments: the loop re-raises the first failure
AllAttached(attachments) == \A i \in DOMAIN attachments : Valid(attachments[i])

\* ClassicEmailHandler.send_email with attachments: the multipart message is
\* built first (EmailClient.send_email, `if attachments:`); a path that does
\* not validate raises there, before the SMTP block (`smtp` stays "none").
SendEmailAttachments ==
  /\ pc = "idle"
  /\ \E to \in AddressLists, attachments \in AttachmentLists,
        save_to_sent \in BOOLEAN, smtp \in {"OK", "EXC"} :
       LET a == [recipients |-> to, cc |-> <<>>, bcc |-> <<>>,
                 in_reply_to |-> <<>>, references |-> <<>>,
                 save_to_sent |-> save_to_sent, attachments |-> attachments]
           msg == BuildMessage(a)
       IN /\ args' = a
          /\ ret' = IF AllAttached(attachments)
                    THEN [sent |-> msg, envelope |-> AllRecipients(a),
                          archived |-> IF Archives(save_to_sent, smtp) THEN msg ELSE <<>>,
                          raised |-> smtp = "EXC", smtp |-> smtp]
                    ELSE [sent |-> <<>>, envelope |-> <<>>, archived |-> <<>>,
                          raised |-> TRUE, smtp |-> "none"]
  /\ handler' = "send_attachments" /\ pc' = "returned"
  /\ UNCHANGED <<idleVars, concVars>>

\* the parts email_message.walk() yields for a multipart message: content
\* type, whether Content-Disposition contains "attachment", decoded payload
ContentTypes == {"text/plain", "text/html", "application/pdf"}

Payloads == {<<>>, <<"a">>, <<"<p>", "b">>}

Parts == [content_type : ContentTypes, attachment : BOOLEAN, payload : Payloads]

\* _strip_html: tags are removed, the text between them is kept
StripHtml(t) == SelectSeq(t, LAMBDA ch : ch # "<p>")

\* _parse_email_data, the loop over walk(): body and html_body after the
\* first n parts
RECURSIVE Walk(_, _)
Walk(parts, n) ==
  IF n = 0 THEN [body |-> <<>>, html_body |-> <<>>]
  ELSE LET w == Walk(parts, n - 1)
           part == parts[n]
       IN IF part.attachment THEN w
          ELSE IF part.content_type = "text/plain"
               THEN [w EXCEPT !.body = @ \o part.payload]
          ELSE IF part.content_type = "text/html" /\ w.body = <<>>
               THEN [w EXCEPT !.html_body = @ \o part.payload]
          ELSE w

\* if not body and html_body: body = _strip_html(html_body)
MultipartBody(parts) ==
  LET w == Walk(parts, Len(parts))
  IN IF w.body = <<>> /\ w.html_body # <<>> THEN StripHtml(w.html_body) ELSE w.body

\* _parse_email_data on a multipart message, up to the truncation
ParseMultipart ==
  /\ pc = "idle"
  /\ \E parts \in SeqsUpTo(Parts, MaxParts) :
       /\ args' = parts
       /\ ret' = MultipartBody(parts)
  /\ handler' = "parse_multipart" /\ pc' = "returned"
  /\ UNCHANGED <<idleVars, concVars>>

CallNext ==
  \/ Quote \/ BuildSearchCriteria \/ Transmit \/ SendEmail \/ SendEmailAttachments
  \/ ParseMultipart

\* the functions above, each called on its own
CallSpec == Init /\ [][CallNext]_vars

\* ================================================= two concurrent calls
\* Two top-level calls run as two tasks of one event loop on the same
\* ClassicEmailHandler; a task gives up control at each await.  The
\* attributes of the handler and of its EmailClient are assigned in __init__
\* only and are constant here.
Methods == {"get_email_count", "imap_connection"}

\* the awaited calls of the try block, in order (imap_connection: up to the
\* yield and the command of its user)
Awaited(m) ==
  IF m = "get_email_count"
  THEN <<"CONNECT", "HELLO", "LOGIN", "ID", "SELECT", "SEARCH">>
  ELSE <<"CONNECT", "HELLO", "LOGIN", "ID", "SELECT", "STORE">>

PooledConnection(n) == 1

\* imap = self.imap_class(host, port): a new object at every call
NewConnection(n) == n + 1

\* a call is entered and binds its local variable imap
Enter(c) ==
  /\ cpc[c] = "idle"
  /\ \E m \in Methods : meth' = [meth EXCEPT ![c] = m]
  /\ imap' = [imap EXCEPT ![c] = NewConnection(conns)]
  /\ conns' = conns + 1
  /\ cpc' = [cpc EXCEPT ![c] = "try"]
  /\ step' = [step EXCEPT ![c] = 1]
  /\ UNCHANGED wire
  /\ UNCHANGED <<handler, pc, idleVars, callVars>>

\* the outcome r of the awaited call cmd of method m leaves the try block by
\* an exception: _send_imap_id swallows its errors, imap_connection raises
\* on a SELECT that is not OK
Leaves(m, cmd, r) ==
  \/ r = "EXC" /\ cmd # "ID"
  \/ m = "imap_connection" /\ cmd = "SELECT" /\ r = "NO"

\* the next awaited call of the try block of call c, on its variable imap
Await(c) ==
  /\ cpc[c] = "try"
  /\ wire' = [wire EXCEPT ![imap[c]] = Append(@, [cmd |-> Awaited(meth[c])[step[c]], by |-> c])]
  /\ \E r \in Resp :
       IF Leaves(meth[c], Awaited(meth[c])[step[c]], r) \/ step[c] = Len(Awaited(meth[c]))
       THEN cpc' = [cpc EXCEPT ![c] = "finally"] /\ step' = step
       ELSE cpc' = cpc /\ step' = [step EXCEPT ![c] = step[c] + 1]
  /\ UNCHANGED <<conns, imap, meth>>
  /\ UNCHANGED <<handler, pc, idleVars, callVars>>

\* finally: try: await imap.logout() except Exception: log
Finally(c) ==
  /\ cpc[c] = "finally"
  /\ wire' = [wire EXCEPT ![imap[c]] = Append(@, [cmd |-> "LOGOUT", by |-> c])]
  /\ cpc' = [cpc EXCEPT ![c] = "done"]
  /\ UNCHANGED <<conns, imap, meth, step>>
  /\ UNCHANGED <<handler, pc, idleVars, callVars>>

ConcNext == \E c \in Tasks : Enter(c) \/ Await(c) \/ Finally(c)

ConcSpec == Init /\ [][ConcNext]_vars

\* ================================================================ claims

\* C1: once the connection object of a session has been created, LOGOUT is
\* attempted exactly once on every exit path of the session (normal return,
\* early return, failure of connect/greeting/LOGIN/SELECT, exception in the
\* middle of the operation), and never before the session is left.
LogoutExactlyOnce ==
  CountCmd(log, "LOGOUT") = (IF created /\ pc = "done" THEN 1 ELSE 0)

\* a delete whose EXPUNGE raised after the STOREs still logged out once
LogoutAfterMidOperationError ==
  /\ pc = "done" /\ handler = "delete" /\ raised = "expunge"
  /\ CountCmd(log, "STORE") > 0 /\ CountCmd(log, "LOGOUT") = 1

\* C2: an error raised by LOGOUT never changes the outcome of the call: a
\* result that was being returned is still returned unchanged, and a call that
\* was failing fails with its original error, not with the logout error
\* (_modify_flags turns that original error into its all-false map).
LogoutErrorSuppressed ==
  [][pc = "logout" =>
       /\ <<stored, moved, failed, deleted_ids, bodyRes, sentOk, emails, total>>' =
          <<stored, moved, failed, deleted_ids, bodyRes, sentOk, emails, total>>
       /\ pending = "return" =>
            /\ results' = results
            /\ pc' = "done" /\ outcome' = "return" /\ raised' = "none"
       /\ pending = "raise" =>
            /\ pc' = "done"
            /\ IF handler = "flags"
               THEN outcome' = "return" /\ results' = MapAll(ids, FALSE)
               ELSE outcome' = "raise" /\ raised' = err /\ results' = results]_vars

\* a delete returned its lists although LOGOUT raised
ResultKeptAfterLogoutError ==
  /\ pc = "done" /\ logoutRes = "raised" /\ handler = "delete"
  /\ outcome = "return" /\ deleted_ids # <<>>

\* C3: when the server rejects SELECT of the target mailbox, the operation
\* surfaces an error to the caller and issues no SEARCH, FETCH, STORE, COPY,
\* MOVE or EXPUNGE afterwards.
SelectRejectionIsFatal ==
  selRes = "NO" =>
    /\ \A k \in DOMAIN log : log[k].cmd \notin MailboxCmds
    /\ pc = "done" => outcome = "raise"

\* position of a call in the session order
Rank(c) ==
  CASE c = "CONNECT" -> 1 [] c = "HELLO" -> 2 [] c = "LOGIN" -> 3
    [] c = "ID" -> 4 [] c = "IDRAW" -> 5 [] c = "LOGOUT" -> 7 [] OTHER -> 6

\* the calls of one session are in protocol order
\* (the ranks never decrease and only mailbox commands repeat; stated for
\* neighbours, which gives it for every pair)
InProtocolOrder(l) ==
  /\ \A i \in 1..(Len(l) - 1) :
        /\ Rank(l[i].cmd) <= Rank(l[i + 1].cmd)
        /\ Rank(l[i].cmd) # 6 => Rank(l[i].cmd) < Rank(l[i + 1].cmd)
  /\ \A k \in DOMAIN l : l[k].cmd \in MailboxCmds =>
        \E j \in 1..(k - 1) :
           l[j].cmd = "SELECT" /\ \E i \in 1..(j - 1) : l[i].cmd = "LOGIN"

\* C4: within one session the steps occur only in the order connect, greeting,
\* LOGIN, optional ID, SELECT, mailbox commands, LOGOUT: no SEARCH, FETCH,
\* STORE, COPY, MOVE or EXPUNGE is issued before LOGIN and SELECT have
\* returned, and nothing is issued on a session after its LOGOUT.
ProtocolOrder ==
  /\ InProtocolOrder(log)
  /\ (\E k \in DOMAIN log : log[k].cmd \in MailboxCmds) => selRes \in {"OK", "NO"}

\* a move that created its folder, fell back to COPY and logged out
MoveSessionCompleted ==
  /\ pc = "done" /\ handler = "move"
  /\ CountCmd(log, "CREATE") = 1 /\ CountCmd(log, "COPY") > 0
  /\ Last(log).cmd = "LOGOUT"

\* C5: a failure of the ID announcement (non-OK result of the standard form,
\* an exception, or a failure of the raw fallback) is never fatal: the session
\* goes on to what follows the announcement, and no error of the ID step
\* reaches the caller.
IdFailureNotFatal ==
  [][/\ pc = "id" => pc' \in {"idraw", AfterId(op)} /\ pending' = "none"
     /\ pc = "idraw" => pc' = AfterId(op) /\ pending' = "none"
     /\ raised' # "id"]_vars

\* a count succeeded although the standard form was rejected and the raw
\* fallback had to be sent
CountAfterIdFailure ==
  /\ pc = "done" /\ handler = "count" /\ idRes = "failed"
  /\ CountCmd(log, "IDRAW") = 1
  /\ selRes = "OK" /\ outcome = "return" /\ total >= 0

TotalIsSortedSetSize ==
  /\ (handler = "metadata" /\ page >= 1) =>
       total = Cardinality(DOMAIN mailbox) /\ total = sortedLen
  /\ op = "count" => CountCmd(log, "FETCH") = 0

\* C7 amended: total is the number of messages the SEARCH of get_email_count's
\* own session matches, whatever page and page_size are; it equals the size of
\* the sorted UID set of that call whenever the date FETCH returned an
\* INTERNALDATE for every matched UID and the mailbox did not change between
\* the two sessions; get_email_count issues no FETCH.
TotalIsMatchCount ==
  /\ (handler = "metadata" /\ page >= 1) =>
       /\ total = Cardinality(DOMAIN mailbox)
       /\ lastSound => total = sortedLen
  /\ op = "count" =>
       /\ CountCmd(log, "FETCH") = 0
       /\ (pc = "done" /\ outcome = "return") =>
            (total >= 0 /\ CountCmd(log, "SEARCH") = 1)

\* the second page of a two-message mailbox still reports total = 2
TotalOnSecondPage ==
  /\ handler = "metadata" /\ page = 2 /\ page_size = 1 /\ lastSound
  /\ total = 2 /\ sortedLen = 2 /\ Len(emails) = 1

\* C11: with empty ids or empty flags, add_flags / remove_flags /
\* replace_flags return the empty map, create no connection and issue no
\* IMAP command.
EmptyFlagCallDoesNothing ==
  (handler = "flags" /\ (ids = <<>> \/ ~hasFlags)) =>
    /\ pc = "done" /\ outcome = "return" /\ results = <<>>
    /\ ~created /\ log = <<>>

\* a flag call with ids but no flags has returned
FlagCallWithoutFlags ==
  /\ handler = "flags" /\ ids # <<>> /\ ~hasFlags
  /\ pc = "done" /\ outcome = "return" /\ results = <<>>

\* how often u occurs in the list l
Occurrences(l, u) == Cardinality({i \in DOMAIN l : l[i] = u})

\* the lists a and b together hold exactly the elements of l, each as often
\* as l does
TogetherExactly(a, b, l) ==
  /\ Len(a) + Len(b) = Len(l)
  /\ \A u \in Range(a) \cup Range(b) \cup Range(l) :
       Occurrences(a, u) + Occurrences(b, u) = Occurrences(l, u)

Distinct(l) == \A i, j \in DOMAIN l : i # j => l[i] # l[j]

\* C12 as stated: whenever move_emails_to_folder returns, moved and failed are
\* disjoint and together contain exactly the input ids, each once.
MovePartition ==
  (handler = "move" /\ pc = "done" /\ outcome = "return") =>
    /\ Range(moved) \cap Range(failed) = {}
    /\ TogetherExactly(moved, failed, ids)

\* C12 amended: whenever move_emails_to_folder returns, moved and failed
\* together contain exactly the input ids, each as often as the input list
\* does, and they are disjoint when the input ids are pairwise distinct.
MovePartitionOfDistinctIds ==
  (handler = "move" /\ pc = "done" /\ outcome = "return") =>
    /\ TogetherExactly(moved, failed, ids)
    /\ Distinct(ids) => Range(moved) \cap Range(failed) = {}

\* two distinct ids, the first moved by COPY and STORE, the second failed
MoveMixedOutcome ==
  /\ handler = "move" /\ pc = "done" /\ outcome = "return"
  /\ Len(ids) = 2 /\ Distinct(ids)
  /\ how = <<"copied_deleted", "copy_failed">>
  /\ moved = <<ids[1]>> /\ failed = <<ids[2]>>

\* the ids of the processed positions whose iteration ended in one of S
RECURSIVE IdsWhere(_, _)
IdsWhere(n, S) ==
  IF n = 0 THEN <<>>
  ELSE IF how[n] \in S THEN Append(IdsWhere(n - 1, S), ids[n])
       ELSE IdsWhere(n - 1, S)

MovedAsClaimed ==
  handler = "move" =>
    /\ moved = IdsWhere(Len(how), {"move", "copied_deleted"})
    /\ failed = IF folderRes = "raised" THEN ids
                ELSE IdsWhere(Len(how), {"copied_kept", "store_raised", "copy_failed"})

\* C13: an id is reported moved only if its MOVE returned OK, or its COPY
\* returned OK and the following STORE of \Deleted succeeded; every other id
\* is reported failed; COPY is never issued for an id whose MOVE returned OK.
MovedOnlyIfMoved ==
  [][ /\ MovedAsClaimed'
      /\ (handler = "move" /\ CountCmd(log', "COPY") > CountCmd(log, "COPY"))
           => Len(how) = idx - 1 ]_vars

\* C14: when create_if_missing is set and creating the target folder fails,
\* every input id is reported failed, none moved, and no SELECT, MOVE, COPY,
\* STORE or EXPUNGE is issued.
CreateFailureFailsFast ==
  (handler = "move" /\ create_if_missing /\ folderRes \in {"refused", "raised"}) =>
    /\ \A c \in {"SELECT", "MOVE", "COPY", "STORE", "EXPUNGE"} : CountCmd(log, c) = 0
    /\ (pc = "done" /\ outcome = "return") => (moved = <<>> /\ failed = ids)

\* position of the first command c in the log (0 when there is none)
FirstCmd(l, c) ==
  IF CountCmd(l, c) = 0 THEN 0
  ELSE CHOOSE i \in DOMAIN l : l[i].cmd = c /\ \A j \in 1..(i - 1) : l[j].cmd # c

\* no command of the set C follows position i of the log
NoneAfter(l, i, C) == \A j \in DOMAIN l : j > i => l[j].cmd \notin C

\* C15: move_emails_to_folder issues EXPUNGE at most once, only after the
\* last id has been processed and only if at least one id was moved.
MoveExpungeOnce ==
  handler = "move" =>
    /\ CountCmd(log, "EXPUNGE") <= 1
    /\ CountCmd(log, "EXPUNGE") = 1 =>
         /\ moved # <<>>
         /\ Len(moved) + Len(failed) = Len(ids)
         /\ NoneAfter(log, FirstCmd(log, "EXPUNGE"), {"MOVE", "COPY", "STORE", "EXPUNGE"})
    /\ (pc = "done" /\ moved = <<>>) => CountCmd(log, "EXPUNGE") = 0
    /\ (pc = "done" /\ outcome = "return" /\ moved # <<>>) =>
         CountCmd(log, "EXPUNGE") = 1

\* a move of two ids, the first failed and the second moved, has expunged
MoveExpungedAfterLastId ==
  /\ handler = "move" /\ pc = "done" /\ outcome = "return"
  /\ how = <<"copy_failed", "move">> /\ CountCmd(log, "EXPUNGE") = 1

\* C16: delete_emails issues one STORE per input id; an id whose STORE fails
\* is reported failed and the remaining ids are still processed; every input
\* id ends in exactly one of deleted_ids and failed_ids, and an id is in
\* deleted_ids only if its \Deleted flag was set.
DeleteIsolatesFailures ==
  (handler = "delete" /\ pc = "done" /\ outcome = "return") =>
    /\ CountCmd(log, "STORE") = Len(ids)
    /\ TogetherExactly(deleted_ids, failed, ids)
    /\ Range(deleted_ids) \cap Range(failed) = {}
    /\ Range(deleted_ids) \subseteq stored

\* C17: in a delete_emails call that reached the selected mailbox, EXPUNGE is
\* issued exactly once, after the STORE of the last id, whatever the per-id
\* outcomes were.
DeleteExpungeOnce ==
  handler = "delete" =>
    /\ CountCmd(log, "EXPUNGE") <= 1
    /\ CountCmd(log, "EXPUNGE") = 1 =>
         /\ CountCmd(log, "STORE") = Len(ids)
         /\ NoneAfter(log, FirstCmd(log, "EXPUNGE"), {"STORE", "EXPUNGE"})
    /\ (selRes = "OK" /\ pc \in {"logout", "done"}) => CountCmd(log, "EXPUNGE") = 1

\* a delete of two ids whose STOREs both raised has expunged all the same
DeleteExpungedThoughAllFailed ==
  /\ handler = "delete" /\ pc = "done" /\ selRes = "OK"
  /\ Len(ids) = 2 /\ failed = ids /\ deleted_ids = <<>>
  /\ CountCmd(log, "EXPUNGE") = 1

\* C18 as stated: get_emails_content reports requested_count = number of
\* input ids, retrieved_count = number of returned emails, retrieved_count +
\* len(failed_ids) = requested_count, each input id either among the returned
\* emails or in failed_ids but not both, and every id is attempted whatever
\* happened to the ids before it.
ContentBatchAccounts ==
  (handler = "content" /\ pc = "content_done") =>
    /\ requested_count = Len(ids)
    /\ retrieved_count = Len(emails)
    /\ retrieved_count + Len(failed) = requested_count
    /\ TogetherExactly(emails, failed, ids)
    /\ \A u \in Range(ids) : (u \in Range(emails)) # (u \in Range(failed))

\* C18 amended: the same, with "either among the returned emails or in
\* failed_ids but not both" for pairwise distinct input ids; for any input the
\* two lists together hold each id as often as the input list does.
ContentBatchAccountsForDistinctIds ==
  (handler = "content" /\ pc = "content_done") =>
    /\ requested_count = Len(ids)
    /\ retrieved_count = Len(emails)
    /\ retrieved_count + Len(failed) = requested_count
    /\ TogetherExactly(emails, failed, ids)
    /\ Distinct(ids) =>
         \A u \in Range(ids) : (u \in Range(emails)) # (u \in Range(failed))

\* the first of two distinct ids failed and the second was still returned
ContentSecondIdAfterFailure ==
  /\ handler = "content" /\ pc = "content_done"
  /\ Len(ids) = 2 /\ Distinct(ids)
  /\ failed = <<ids[1]>> /\ emails = <<ids[2]>>
  /\ retrieved_count = 1 /\ requested_count = 2

\* C19: for every message and every integer truncation limit (and the
\* default when none is given), the returned body is at most
\* limit + len("...[TRUNCATED]") long.
BodyLengthBounded ==
  pc = "parsed" => Len(body) <= LimitOf(truncate_body) + Len(Marker)

\* C20: the body is truncated exactly when its length exceeds the limit: a
\* body of length <= limit is returned unchanged, a longer one as its first
\* limit characters followed by the marker.
TruncatedExactlyWhenOver ==
  pc = "parsed" =>
    LET limit == LimitOf(truncate_body) IN
    IF Len(text) <= limit THEN body = text
    ELSE body = [i \in 1..limit |-> text[i]] \o Marker

\* the INTERNALDATE the date fetch recorded for a UID
DateOf(u) == (CHOOSE i \in DOMAIN uid_dates : uid_dates[i].uid = u)

\* C8: the items of a metadata page are yielded in the date-sorted order of
\* their UIDs: non-increasing INTERNALDATE when order is "desc", non-decreasing
\* when "asc", whatever order the header FETCH responses arrive in.
YieldedInDateOrder ==
  op = "stream" =>
    /\ Range(emails) \subseteq DictKeys(uid_dates)
    /\ \A i, j \in DOMAIN emails : i < j =>
         ~DateBefore(uid_dates[DateOf(emails[j])], uid_dates[DateOf(emails[i])], order)

\* a page of two messages of different dates whose headers arrived in the
\* other order
YieldedAgainstFetchOrder ==
  /\ pc = "done" /\ op = "stream" /\ Len(emails) = 2
  /\ metadata_by_uid = <<emails[2], emails[1]>>
  /\ uid_dates[DateOf(emails[1])].date # uid_dates[DateOf(emails[2])].date

\* C9: for non-empty ids and non-empty flags, add_flags / remove_flags /
\* replace_flags return a map whose key set is exactly the set of input ids, on
\* every path: batch STORE accepted, batch STORE rejected, per-id fallback,
\* connection or SELECT failure.
FlagResultCoversIds ==
  (handler = "flags" /\ pc = "done" /\ ids # <<>> /\ hasFlags) =>
    /\ outcome = "return"
    /\ DOMAIN results = Range(ids)

\* the per-id fallback reported one id true and another false
FlagFallbackMixedResult ==
  /\ handler = "flags" /\ pc = "done" /\ batchRes = "EXC"
  /\ \E a, b \in DOMAIN results : results[a] /\ ~results[b]

\* the STOREs of a session, in order
StoreIds(l) ==
  LET st == SelectSeq(l, LAMBDA c : c.cmd = "STORE")
  IN [k \in DOMAIN st |-> st[k].ids]

\* the last per-id STORE outcome for id u
LastStoreOk(u) ==
  LET k == CHOOSE i \in DOMAIN storeRes :
             ids[i] = u /\ \A j \in DOMAIN storeRes : ids[j] = u => j <= i
  IN storeRes[k] = "OK"

\* C10 as stated: whenever the batched STORE fails (non-OK response or
\* exception) one STORE per id follows in input order, and every id whose own
\* STORE succeeds is reported true.
BatchFailureFallsBack ==
  (handler = "flags" /\ pc = "done" /\ batchRes \in {"NO", "EXC"}) =>
    /\ StoreIds(log) = <<ids>> \o [k \in DOMAIN ids |-> <<ids[k]>>]
    /\ \A u \in Range(ids) : results[u] = LastStoreOk(u)

\* C10 amended: exactly one batched STORE over all ids is issued first; when it
\* raises, one STORE per id follows in input order and each id is reported with
\* the outcome of its own STORE; when it returns a response, no per-id STORE is
\* issued and every id is reported true (OK) or false (non-OK).
BatchExceptionFallsBack ==
  (handler = "flags" /\ pc = "done" /\ batchRes # "none") =>
    /\ StoreIds(log)[1] = ids
    /\ IF batchRes = "EXC"
       THEN /\ StoreIds(log) = <<ids>> \o [k \in DOMAIN ids |-> <<ids[k]>>]
            /\ \A u \in Range(ids) : results[u] = LastStoreOk(u)
       ELSE /\ StoreIds(log) = <<ids>>
            /\ \A u \in Range(ids) : results[u] = (batchRes = "OK")

\* the fallback ran over two different ids, the first failed, the second did not
FallbackIsolatesBadId ==
  /\ handler = "flags" /\ pc = "done" /\ batchRes = "EXC"
  /\ Len(ids) = 2 /\ ids[1] # ids[2]
  /\ ~results[ids[1]] /\ results[ids[2]]

\* a filter is set when the function is given a value for it that it takes
\* as present: a date, a non-empty string, True or False
TextSet(v) == v # <<>> /\ v[1] # <<>>

AnyFilterSet(a) ==
  \/ a.before # <<>> \/ a.since # <<>>
  \/ TextSet(a.subject) \/ TextSet(a.body) \/ TextSet(a.text)
  \/ TextSet(a.from_address) \/ TextSet(a.to_address)
  \/ a.seen # <<>> \/ a.flagged # <<>> \/ a.answered # <<>>

\* C21: _build_search_criteria returns exactly ["ALL"] when no filter is set,
\* and for every other filter combination the token ALL does not appear in
\* the result.
AllExactlyWithoutFilter ==
  handler = "criteria" =>
    /\ ~AnyFilterSet(args) => ret = <<<<"ALL">>>>
    /\ AnyFilterSet(args) => <<"ALL">> \notin Range(ret)

\* no filter: every date and flag is None, the text filters are None or empty
CriteriaWithoutFilter ==
  /\ handler = "criteria" /\ ~AnyFilterSet(args)
  /\ args.subject = <<<<>>>> /\ args.body = <<>>
  /\ ret = <<<<"ALL">>>>

\* the keywords of the criteria list, grouped, in the order of the claim
KeywordGroups ==
  <<{"BEFORE"}, {"SINCE"}, {"SUBJECT"}, {"BODY"}, {"TEXT"}, {"FROM"}, {"TO"},
    {"SEEN", "UNSEEN"}, {"FLAGGED", "UNFLAGGED"}, {"ANSWERED", "UNANSWERED"}>>

IsKeyword(tok) == Len(tok) = 1 /\ \E g \in DOMAIN KeywordGroups : tok[1] \in KeywordGroups[g]

GroupOf(tok) == CHOOSE g \in DOMAIN KeywordGroups : tok[1] \in KeywordGroups[g]

\* a three-state flag contributes pos when true, neg when false, nothing when unset
FlagTokens(v, pos, neg, l) ==
  /\ (<<pos>> \in Range(l)) = (v = <<TRUE>>)
  /\ (<<neg>> \in Range(l)) = (v = <<FALSE>>)

\* a filter that is set contributes its keyword, followed by its operand
Contributes(isSet, key, l) ==
  (\E i \in DOMAIN l : l[i] = <<key>> /\ i < Len(l) /\ ~IsKeyword(l[i + 1])) = isSet

\* C22: for every combination of filters the keywords of the result appear in
\* the order BEFORE, SINCE, SUBJECT, BODY, TEXT, FROM, TO, seen, flagged,
\* answered, each filter that is set contributing its keyword once; a flag
\* contributes its positive token when true, its negated token when false and
\* nothing when unset.
CriteriaInFixedOrder ==
  handler = "criteria" =>
    /\ \A i, j \in DOMAIN ret :
         (i < j /\ IsKeyword(ret[i]) /\ IsKeyword(ret[j])) => GroupOf(ret[i]) < GroupOf(ret[j])
    /\ Contributes(args.before # <<>>, "BEFORE", ret)
    /\ Contributes(args.since # <<>>, "SINCE", ret)
    /\ Contributes(TextSet(args.subject), "SUBJECT", ret)
    /\ Contributes(TextSet(args.body), "BODY", ret)
    /\ Contributes(TextSet(args.text), "TEXT", ret)
    /\ Contributes(TextSet(args.from_address), "FROM", ret)
    /\ Contributes(TextSet(args.to_address), "TO", ret)
    /\ FlagTokens(args.seen, "SEEN", "UNSEEN", ret)
    /\ FlagTokens(args.flagged, "FLAGGED", "UNFLAGGED", ret)
    /\ FlagTokens(args.answered, "ANSWERED", "UNANSWERED", ret)

\* every filter set, with flags of both polarities
CriteriaWithEveryFilter ==
  /\ handler = "criteria" /\ Len(ret) = 17
  /\ args.seen = <<FALSE>> /\ args.flagged = <<TRUE>>

\* undoing the escapes of RFC 3501: a backslash stands for the character after it
RECURSIVE Unescape(_)
Unescape(q) ==
  IF q = <<>> THEN <<>>
  ELSE IF Head(q) = BS /\ Len(q) >= 2 THEN <<q[2]>> \o Unescape(Tail(Tail(q)))
  ELSE <<Head(q)>> \o Unescape(Tail(q))

\* removing the outer quotes, then undoing the escapes
Unquote(q) == Unescape(SubSeq(q, 2, Len(q) - 1))

\* C23: for every string over an alphabet with backslash and double quote,
\* unquoting the output of _quote_search_param and of _quote_mailbox gives the
\* string back, and no other string quotes to the same output.
QuotingRoundTrip ==
  handler = "quote" =>
    /\ Len(ret) >= 2 /\ Head(ret) = DQ /\ Last(ret) = DQ
    /\ Unquote(ret) = args.str
    /\ \A t \in Strings : QuoteBy(args.fn, t) = ret => t = args.str

\* a string made of the two escaped characters has been quoted
QuotedBackslashAndQuote ==
  /\ handler = "quote" /\ args.fn = "_quote_search_param"
  /\ args.str = <<DQ, BS>>
  /\ ret = <<DQ, BS, DQ, BS, BS, DQ>>

\* C24: on every command the layer transmits, each mailbox-identifying
\* argument (of SELECT, LIST, CREATE, APPEND, COPY, MOVE) and each free-text
\* SEARCH operand is the output of the quoting routine applied to the caller's
\* string.
EveryArgumentQuoted ==
  handler = "transmit" =>
    /\ Len(ret) >= 2 /\ Head(ret) = DQ /\ Last(ret) = DQ
    /\ Unquote(ret) = args.str

\* a list argument as a list: None is the empty list
ListOf(l) == IF l = <<>> THEN <<>> ELSE l[1]

HeaderNames(m) == {m[i].name : i \in DOMAIN m}

\* the address occurs in some header of the message
InSomeHeader(addr, m) == \E i \in DOMAIN m : addr \in Range(m[i].value)

\* C25: for every send the envelope recipient list is the To recipients
\* followed by the Cc and the Bcc addresses, and the Bcc list is written into
\* no header, neither of the message submitted nor of the message archived in
\* the Sent folder: there is no Bcc header, and the To and Cc headers carry
\* the To and Cc lists only, so that an address given as Bcc alone occurs in
\* no header.
BccOnlyInEnvelope ==
  handler = "send_email" =>
    /\ ret.envelope = args.recipients \o ListOf(args.cc) \o ListOf(args.bcc)
    /\ \A m \in {ret.sent, ret.archived} :
         /\ "Bcc" \notin HeaderNames(m)
         /\ \A i \in DOMAIN m :
              /\ m[i].name = "To" => m[i].value = Join(args.recipients)
              /\ m[i].name = "Cc" => m[i].value = Join(ListOf(args.cc))
         /\ \A b \in Range(ListOf(args.bcc)) :
              b \notin Range(args.recipients) \cup Range(ListOf(args.cc)) => ~InSomeHeader(b, m)

\* a message with To, Cc and Bcc has been submitted and archived
SentWithBcc ==
  /\ handler = "send_email" /\ ret.archived # <<>>
  /\ args.recipients = <<"a@x">> /\ args.cc = <<<<"a@x">>>> /\ args.bcc = <<<<"b@x", "a@x">>>>
  /\ ret.envelope = <<"a@x", "a@x", "b@x", "a@x">>

HeaderValues(m, name) == {m[i].value : i \in {j \in DOMAIN m : m[j].name = name}}

\* C26: the In-Reply-To header is present in the built message exactly when
\* in_reply_to is supplied (a non-empty value), and then equals it; the
\* References header is present exactly when references is supplied, and
\* then equals it; each is decided independently of the other.
ThreadHeadersAsSupplied ==
  handler = "send_email" =>
    /\ HeaderValues(ret.sent, "In-Reply-To") =
         (IF StrGiven(args.in_reply_to) THEN {args.in_reply_to} ELSE {})
    /\ HeaderValues(ret.sent, "References") =
         (IF StrGiven(args.references) THEN {args.references} ELSE {})
    /\ Cardinality({i \in DOMAIN ret.sent : ret.sent[i].name \in {"In-Reply-To", "References"}}) <= 2

\* references supplied without in_reply_to
ReferencesWithoutInReplyTo ==
  /\ handler = "send_email"
  /\ args.in_reply_to = <<>> /\ args.references = <<"<a@x>">>
  /\ "References" \in HeaderNames(ret.sent) /\ "In-Reply-To" \notin HeaderNames(ret.sent)

\* C27: append_to_sent never raises: whatever fails (connection, LOGIN, LIST,
\* the SELECT or APPEND of a candidate, LOGOUT) the caller gets a Boolean and
\* no exception, and the Boolean is true exactly when some APPEND answered
\* OK; so ClassicEmailHandler.send_email does not fail on the archival.
AppendToSentNeverRaises ==
  (handler = "sent" /\ pc = "done") =>
    /\ outcome = "return" /\ raised = "none"
    /\ sentOk = appended

\* archived in a later candidate after an earlier one was refused, and the
\* LOGOUT raised
ArchivedDespiteFailures ==
  /\ handler = "sent" /\ pc = "done" /\ sentOk
  /\ CountCmd(log, "SELECT") >= 2 /\ logoutRes = "raised"

\* the folders selected in the session, in order
Selected(l) == SelectSeq(l, LAMBDA c : c.cmd = "SELECT")

\* C28: when LIST shows a folder with the \Sent flag, that folder is the
\* first candidate tried; the candidates are tried top to bottom, the message
\* is appended to the first one whose SELECT and APPEND both answer OK, and
\* no candidate is tried after that.
FlagFolderTriedFirst ==
  handler = "sent" =>
    /\ (flag_folder # "none" /\ Selected(log) # <<>>) => Selected(log)[1].arg = flag_folder
    /\ \A k \in DOMAIN Selected(log) : Selected(log)[k].arg = candidates[k]
    /\ \A k \in DOMAIN log :
         log[k].cmd = "APPEND" => (k > 1 /\ log[k - 1].cmd = "SELECT" /\ log[k - 1].arg = log[k].arg)
    /\ sentOk => (Last(log).cmd \in {"APPEND", "LOGOUT"} /\ CountCmd(log, "APPEND") >= 1)

\* C29: when attachment download is disabled in the settings, the
\* download_attachment tool is rejected with a permission error before a
\* handler is dispatched and before a connection is opened; no file is
\* written.
DisabledDownloadRejected ==
  (tool = "download_attachment" /\ ~enable_attachment_download) =>
    /\ pc = "done" /\ outcome = "raise" /\ raised = "PermissionError"
    /\ handler = "none" /\ op = "none"
    /\ ~created /\ log = <<>>
    /\ bodyRes = "unset"

\* the tool has been called with the download disabled
DownloadCalledWhileDisabled ==
  tool = "download_attachment" /\ ~enable_attachment_download /\ outcome = "raise"

\* C30: for any interleaving of two concurrent top-level operations on the
\* same handler, each operation sends all its commands, its LOGOUT included,
\* on the connection it opened itself, and the two operations do not share a
\* connection.
ConcurrentCallsIsolated ==
  /\ \A c \in Tasks : \A k \in DOMAIN wire : \A i \in DOMAIN wire[k] :
       wire[k][i].by = c => k = imap[c]
  /\ \A c, d \in Tasks : (c # d /\ imap[c] # 0) => imap[c] # imap[d]
  /\ \A c \in Tasks : cpc[c] = "done" =>
       /\ Last(wire[imap[c]]).cmd = "LOGOUT"
       /\ Cardinality({i \in DOMAIN wire[imap[c]] : wire[imap[c]][i].cmd = "LOGOUT"}) = 1

\* one call has logged out while the other, entered before it finished, is
\* still in the middle of its commands
OneDoneOtherRunning ==
  /\ cpc[1] = "done" /\ cpc[2] = "try" /\ step[2] = 5
  /\ imap[2] = 1 /\ imap[1] = 2

\* the header FETCHes of the session, in order
HeaderFetches(l) == SelectSeq(l, LAMBDA c : c.cmd = "FETCH" /\ c.arg = "BODY.PEEK[HEADER]")

\* the UIDs at positions [(pg-1)*ps, pg*ps) of the sequence, counted from 0
Window(sorted, pg, ps) ==
  LET first == (pg - 1) * ps
      n == IF Len(sorted) <= first THEN 0 ELSE Min(ps, Len(sorted) - first)
  IN [i \in 1..n |-> sorted[first + i].uid]

\* C31: in a metadata listing the window is positions [(page-1)*page_size,
\* page*page_size) of the sorted UID sequence; at most one header FETCH is
\* issued per call and its UIDs are exactly that window; when the SEARCH
\* matched nothing or the window is empty, no header FETCH is issued.
HeaderFetchIsWindow ==
  handler = "stream" =>
    LET hf == HeaderFetches(log)
        w  == Window(SortedUids(uid_dates, order), page, page_size)
    IN /\ Len(hf) <= 1
       /\ hf # <<>> => (hf[1].ids = w /\ w # <<>> /\ page_uids = w)
       /\ email_ids = <<>> => hf = <<>>
       /\ (pc = "done" /\ outcome = "return" /\ w # <<>>) => Len(hf) = 1

\* the second page of a two-message mailbox has been fetched
SecondPageFetched ==
  /\ handler = "stream" /\ page = 2 /\ page_size = 1 /\ Len(uid_dates) = 2
  /\ Len(HeaderFetches(log)) = 1 /\ Len(HeaderFetches(log)[1].ids) = 1

\* the date FETCHes of the session, in order
DateFetches(l) == SelectSeq(l, LAMBDA c : c.cmd = "FETCH" /\ c.arg = "INTERNALDATE")

\* every matched UID is requested in exactly one chunk of at most chunk_size
\* UIDs, once all chunks have been sent
ChunkedOnce ==
  (chunkRes # <<>> /\ \A k \in DOMAIN chunkRes : chunkRes[k].issued) =>
    LET df == DateFetches(log)
    IN /\ \A i \in DOMAIN df : Len(df[i].ids) <= chunk_size /\ Len(df[i].ids) >= 1
       /\ \A u \in Range(email_ids) :
            Cardinality({i \in DOMAIN df : u \in Range(df[i].ids)}) = 1
       /\ \A i \in DOMAIN df : Range(df[i].ids) \subseteq Range(email_ids)

\* the header FETCH comes after every chunk fetch has completed
HeadersAfterJoin ==
  HeaderFetches(log) # <<>> =>
    /\ \A k \in DOMAIN chunkRes : chunkRes[k].done
    /\ \A i, j \in DOMAIN log :
         (log[i].arg = "INTERNALDATE" /\ log[j].arg = "BODY.PEEK[HEADER]") => i < j

\* C32 as stated: every matched UID is requested in exactly one chunk of at
\* most chunk_size UIDs, the header FETCH is issued only after all chunk
\* fetches have completed, and if any chunk fetch fails (raises, or is
\* answered with a status that is not OK) the call fails without a header
\* FETCH.
ChunkFailureFailsCall ==
  handler = "stream" =>
    /\ ChunkedOnce /\ HeadersAfterJoin
    /\ (\E k \in DOMAIN chunkRes : chunkRes[k].res \in {"NO", "EXC"}) =>
         /\ HeaderFetches(log) = <<>>
         /\ pc = "done" => outcome = "raise"

\* C32, amended: as above, with the last part for a chunk fetch that raises.
ChunkExceptionFailsCall ==
  handler = "stream" =>
    /\ ChunkedOnce /\ HeadersAfterJoin
    /\ (\E k \in DOMAIN chunkRes : chunkRes[k].res = "EXC") =>
         /\ HeaderFetches(log) = <<>>
         /\ pc = "done" => (outcome = "raise" /\ raised \in {"fetch_dates", "strptime"})

\* two chunk fetches are in flight on the connection at the same time
TwoChunksInFlight ==
  /\ handler = "stream" /\ pc = "dates" /\ Len(chunkRes) >= 2
  /\ chunkRes[1].issued /\ ~chunkRes[1].done
  /\ chunkRes[2].issued /\ ~chunkRes[2].done

\* C33: in a metadata listing or a content batch, a date or a message that
\* cannot be parsed never ends the call with an exception: the value falls
\* back, or the message is skipped or reported as failed
DecodeErrors == {"strptime", "parse_error"}

UnparseableNeverRaises ==
  (handler \in {"stream", "body"} /\ pc = "done" /\ outcome = "raise")
     => raised \notin DecodeErrors

\* C34: with create_if_missing, LIST for the target comes before SELECT of
\* the source, and CREATE is issued exactly when the LIST response has no
\* entry for the target, whatever the shape of that response (one carrying
\* only a completion line included); without create_if_missing neither LIST
\* nor CREATE is issued.
CreateExactlyWhenUnlisted ==
  handler = "move" =>
    /\ ~create_if_missing =>
         (CountCmd(log, "LIST") = 0 /\ CountCmd(log, "CREATE") = 0)
    /\ (create_if_missing /\ CountCmd(log, "SELECT") > 0) =>
         (FirstCmd(log, "LIST") > 0 /\ FirstCmd(log, "LIST") < FirstCmd(log, "SELECT"))
    /\ folderRes = "exists" => CountCmd(log, "CREATE") = 0
    /\ folderRes = "unlisted" => CountCmd(log, "CREATE") = 1

\* the FETCH syntaxes issued so far, in order
FetchSyntaxes(l) ==
  LET f == SelectSeq(l, LAMBDA c : c.cmd = "FETCH")
  IN [i \in DOMAIN f |-> f[i].arg]

FormatCalls == {"body", "attach", "savefile"}

\* C35: _fetch_email_with_formats tries RFC822, BODY[], BODY.PEEK[],
\* (BODY.PEEK[]) strictly in that order; after the first response recognised
\* as message content no later syntax is issued; an exception or an
\* unrecognised response moves on to the next syntax; the loop is left
\* without content only after all four were tried.
FormatsInOrderUntilContent ==
  /\ [](handler \in FormatCalls =>
          /\ Len(FetchSyntaxes(log)) <= 4
          /\ FetchSyntaxes(log) =
               SubSeq(<<"RFC822", "BODY[]", "BODY.PEEK[]", "(BODY.PEEK[])">>,
                      1, Len(FetchSyntaxes(log)))
          /\ pc = "fetch" => idx = Len(FetchSyntaxes(log)) + 1)
  /\ [][ (handler \in FormatCalls /\ handler' = handler) =>
            /\ (pc # "fetch") => FetchSyntaxes(log') = FetchSyntaxes(log)
            /\ (pc = "fetch" /\ pc' = "fetch") =>
                  Len(FetchSyntaxes(log')) = Len(FetchSyntaxes(log)) + 1
            /\ (pc = "fetch" /\ pc' \notin {"fetch", "decode"}) =>
                  Len(FetchSyntaxes(log')) = 4 ]_vars

\* the third syntax was the first one recognised
ThirdFormatRecognised ==
  handler = "body" /\ pc = "decode" /\ Len(FetchSyntaxes(log)) = 3

SendCalls == {"send_email", "send_attachments"}

\* C36: the message is handed to append_to_sent only when save_to_sent is
\* enabled and only after the SMTP submission completed without error; when
\* the SMTP submission fails the error reaches the caller and append_to_sent
\* (which opens the IMAP session for archival) is not called.
ArchivedOnlyAfterSubmission ==
  handler \in SendCalls =>
    /\ ret.archived # <<>> => (args.save_to_sent /\ ret.smtp = "OK" /\ ~ret.raised)
    /\ ret.smtp = "EXC" => (ret.raised /\ ret.archived = <<>>)
    /\ (args.save_to_sent /\ ret.smtp = "OK") => ret.archived = ret.sent

\* a submission that failed although save_to_sent is enabled
SubmissionFailedWithSaveToSent ==
  handler = "send_email" /\ args.save_to_sent /\ ret.smtp = "EXC" /\ ret.raised

\* C39: if any attachment path given to send_email does not exist or is not
\* a regular file, the send fails with an error before any SMTP connection
\* is opened: nothing is submitted to any recipient and nothing is handed to
\* append_to_sent.
BadAttachmentSendsNothing ==
  (handler = "send_attachments"
     /\ \E i \in DOMAIN args.attachments : args.attachments[i] \in {"missing", "dir"}) =>
    /\ ret.raised /\ ret.smtp = "none"
    /\ ret.sent = <<>> /\ ret.envelope = <<>> /\ ret.archived = <<>>

\* the second of two paths is a directory, save_to_sent is enabled
SecondAttachmentIsDirectory ==
  /\ handler = "send_attachments" /\ args.save_to_sent
  /\ args.attachments = <<"file", "dir">> /\ ret.raised

\* the parts of the given content type that are not attachments
TextParts(parts, ct) ==
  {i \in DOMAIN parts : parts[i].content_type = ct /\ ~parts[i].attachment}

FirstOf(S) == CHOOSE i \in S : \A j \in S : i <= j

\* C37: the body of a multipart message is the content of its first
\* text/plain part that is not an attachment when there is one, otherwise
\* its first text/html part converted to text; a part whose
\* Content-Disposition contains "attachment" never contributes.
BodyIsFirstTextPart ==
  handler = "parse_multipart" =>
    ret = IF TextParts(args, "text/plain") # {}
          THEN args[FirstOf(TextParts(args, "text/plain"))].payload
          ELSE IF TextParts(args, "text/html") # {}
               THEN StripHtml(args[FirstOf(TextParts(args, "text/html"))].payload)
               ELSE <<>>

\* C40: every STORE of add_flags, remove_flags and replace_flags runs in a
\* session whose selected mailbox is INBOX, whether the call comes from the
\* CLI with a --mailbox option or not: the one SELECT of the session names
\* INBOX, was answered OK and precedes every STORE.
FlagsStoreInInbox ==
  (handler = "flags" /\ CountCmd(log, "STORE") > 0) =>
    /\ selRes = "OK"
    /\ CountCmd(log, "SELECT") = 1
    /\ FirstCmd(log, "SELECT") < FirstCmd(log, "STORE")
    /\ log[FirstCmd(log, "SELECT")].arg = "INBOX"

\* a CLI flag command with --mailbox Archive has issued its STORE
StoreWithMailboxOption ==
  /\ handler = "flags" /\ tool = "flags" /\ mailbox_option = "Archive"
  /\ CountCmd(log, "STORE") > 0

\* C38: the merged UID-to-date map and the page order, the relative order of
\* UIDs of equal INTERNALDATE included, are determined by the SEARCH result
\* and the per-chunk responses: nothing is merged while a chunk fetch is
\* outstanding, and after the join the map is the merge of the chunk results
\* in chunk order and the page is cut from it, in whatever order the chunk
\* fetches completed.
MergeIgnoresCompletionOrder ==
  (handler = "stream" /\ chunkRes # <<>>) =>
    IF Gathered(chunkRes)
    THEN /\ uid_dates = MergeChunks([j \in DOMAIN chunkRes |-> chunkRes[j].dates])
         /\ page_uids = PageUids(SortedUids(uid_dates, order), page, page_size)
         /\ \A a, b \in DOMAIN chunkRes : \A i, j \in DOMAIN uid_dates :
              (/\ a < b
               /\ uid_dates[i].uid \in DictKeys(chunkRes[a].dates)
               /\ uid_dates[j].uid \in DictKeys(chunkRes[b].dates)) => i < j
    ELSE uid_dates = <<>> /\ page_uids = <<>>

\* the second chunk fetch has completed with a date while the first is still
\* outstanding
SecondChunkCompletedFirst ==
  /\ handler = "stream" /\ pc = "dates" /\ Len(chunkRes) = 2
  /\ chunkRes[2].done /\ chunkRes[2].dates # <<>>
  /\ chunkRes[1].issued /\ ~chunkRes[1].done

====
